---- MODULE Spec2Model ----
(***************************************************************************)
(* The in-process message broker of package mq: the subscription registry  *)
(* (SubscriptionManager over SafeMap), the broker's lifecycle (Start /     *)
(* Stop), Publish, the dispatcher workers, the delivery timers,            *)
(* CancelDelayedMessage, the cleaner and the subscribers' handler tasks.   *)
(*                                                                         *)
(* Several specifications share the variables:                             *)
(*   SpecRegSeq   the registry under sequential calls                      *)
(*   SpecRegConc  the registry under concurrent calls, one step per        *)
(*                SafeMap critical section                                 *)
(*   Spec         one message through the broker, one step per critical    *)
(*                section of every task, against Stop and two cancels      *)
(*   SpecLife     Start / Stop calls only, a restart included              *)
(*   SpecIds      two delayed messages constructed at one clock reading    *)
(*   SpecLive     one delayed message under the scheduler's fairness       *)
(*   SpecPub      several Publish calls on a full backlog, against Stop    *)
(*   SpecRegLog   the registry under sequential calls, the last call noted *)
(*   SpecTopic    Subscriber.Subscribe of one topic, over topic strings    *)
(*   SpecApi      RegisterSubscriber / UnregisterSubscriber / Subscribe /  *)
(*                Unsubscribe calls, one step per critical section         *)
(*   SpecOff      Publish calls on a new broker, against Start and Stop    *)
(*   SpecLifeFair SpecLife under the scheduler's fairness                  *)
(*   SpecFan      one message to two subscribers or to none, under the     *)
(*                scheduler's fairness                                     *)
(*   SpecSweep    one message against the cleaner's ticker                 *)
(*   SpecHandler  two messages whose handler invocations end with nil, an  *)
(*                error or a panic, under the scheduler's fairness         *)
(*   SpecSub      MessageBroker.Subscribe of a topic map, sequential       *)
(*                calls, over id and topic strings                         *)
(*   SpecRace     UnregisterSubscriber against Subscribe, one step per     *)
(*                critical section                                         *)
(*   SpecPass     two messages against the cleaner's passes, a pass being  *)
(*                a collection and the deletions it leads to               *)
(*   SpecFifo     two messages published in sequence by one producer       *)
(*   SpecUnsub    Unsubscribe against two messages, the second published   *)
(*                after it returned                                        *)
(***************************************************************************)
EXTENDS Integers, Sequences, FiniteSets, TLC

\* ------------------------------------------------------------------ bounds

\* Messages (one Publish call each) a behaviour of SpecIds and SpecPub has; Spec
\* and SpecLive follow a single message.
MaxMsgs == 2
\* Last reading of the model's clock.
MaxTime == 2
\* Longest topic string of SpecTopic, in characters.
MaxTopicLen == 6
\* Last reading of the clock of SpecSweep.
MaxSweepTime == 4

\* ------------------------------------------------------------- value sets

Subs == {"s1", "s2", "s3"}
Topics == {"t1", "t2", "t3"}
\* The concurrent registry specification uses two of each.
ConcSubs == {"s1", "s2"}
ConcTopics == {"t1", "t2"}
RegCallers == {"r1", "r2"}
\* The messages: message m is the one the m-th Publish caller constructs.
Msgs == 1..MaxMsgs

VARIABLES
    \* SubscriptionManager
    topicSubscribers,   \* SafeMap topic -> set of subscriber ids (absent key = not in DOMAIN)
    subscriberTopics,   \* SafeMap subscriber id -> set of topics
    rcall,              \* registry calls in flight (SpecRegConc)
    \* MessageBroker
    config,             \* BrokerConfig: MaxConcurrency, QueueSize
    running,            \* int32 flag
    ctxDone,            \* b.ctx has been cancelled
    chClosed,           \* b.pendingMessages has been closed
    pendingMessages,    \* the backlog channel's buffer, a sequence of messages
    messages,           \* the store: SafeMap message id -> message
    deliveryTimers,     \* the timer map: SafeMap message id -> timer (of a message)
    subscribers,        \* the registered subscriber ids
    subscriptions,      \* each subscriber's handler table: subscriber id -> set of topics
    msgs,               \* the Message values constructed (NewMessage, SetDelay, SetTTL)
    timer,              \* per message: its time.Timer
    worker,             \* the messageDistributor goroutines spawned so far
    callback,           \* per message: the goroutine running its timer's function
    handler,            \* per message and subscriber: the processMessage goroutine
    cleaner,            \* the cleaner goroutines spawned so far
    monitor,            \* the monitor goroutines spawned so far
    starter,            \* Start calls
    stopper,            \* Stop calls
    publisher,          \* Publish calls
    canceller,          \* CancelDelayedMessage calls
    now,                \* the clock
    expiredDrop         \* the messages a worker dropped as expired

regVars == <<topicSubscribers, subscriberTopics>>
subVars == <<subscribers, subscriptions>>
lifeVars == <<running, ctxDone, chClosed>>
callVars == <<starter, stopper, publisher, canceller>>
brokerVars == <<config, running, ctxDone, chClosed, pendingMessages, messages,
                deliveryTimers, subscribers, subscriptions, msgs, timer, worker,
                callback, handler, cleaner, monitor, starter, stopper, publisher,
                canceller, now, expiredDrop>>
vars == <<topicSubscribers, subscriberTopics, rcall, config, running, ctxDone,
          chClosed, pendingMessages, messages, deliveryTimers, subscribers,
          subscriptions, msgs, timer, worker, callback, handler, cleaner, monitor,
          starter, stopper, publisher, canceller, now, expiredDrop>>

\* ---------------------------------------------------------------- SafeMap

EmptyMap == [k \in {} |-> {}]

\* SafeMap.Get: the value and whether the key is present; the zero value of a
\* map type (nil, no elements) when it is absent.
SafeMapGet(m, key) ==
    IF key \in DOMAIN m THEN [value |-> m[key], ok |-> TRUE]
    ELSE [value |-> {}, ok |-> FALSE]

\* SafeMap.Update under the shard lock: the updater's result is stored when keep
\* is true and the key is deleted when it is false.
SafeMapUpdate(m, key, upd) ==
    IF upd.keep
    THEN [k \in DOMAIN m \cup {key} |-> IF k = key THEN upd.val ELSE m[k]]
    ELSE [k \in DOMAIN m \ {key} |-> m[k]]

\* SafeMap.Set
SafeMapSet(m, key, val) == [k \in DOMAIN m \cup {key} |-> IF k = key THEN val ELSE m[k]]

\* A Delete that leaves the key in place.
SafeMapKeep(m, key) == m

\* SafeMap.Delete
SafeMapDelete(m, key) == [k \in DOMAIN m \ {key} |-> m[k]]

\* SafeMap.Keys
SafeMapKeys(m) == DOMAIN m

\* SafeMap.Length
SafeMapLength(m) == Cardinality(DOMAIN m)

\* ---------------------------------------------------- SubscriptionManager

\* An updater that replaces the inner map by one holding the new element only.
AddUpdaterFresh(old, x) == [val |-> {x}, keep |-> TRUE]

\* The updater closures of AddSubscription: a nil inner map is allocated, the
\* element inserted, the key kept.
AddUpdater(old, x) == [val |-> old.value \cup {x}, keep |-> TRUE]

\* An updater that deletes the element and keeps the inner map it emptied.
RemoveUpdaterKeepEmpty(old, x) == [val |-> old.value \ {x}, keep |-> old.ok]

\* The updater closures of RemoveSubscription: nil stays absent; the element is
\* deleted and an inner map left empty is dropped with its key.
RemoveUpdater(old, x) ==
    IF ~old.ok THEN [val |-> {}, keep |-> FALSE]
    ELSE IF old.value \ {x} = {} THEN [val |-> {}, keep |-> FALSE]
    ELSE [val |-> old.value \ {x}, keep |-> TRUE]

\* First critical section of AddSubscription: topicSubscribers.Update(topic, ..)
AddTopicSide(ts, s, t) == SafeMapUpdate(ts, t, AddUpdater(SafeMapGet(ts, t), s))
\* Second critical section of AddSubscription: subscriberTopics.Update(id, ..)
AddSubscriberSide(st, s, t) == SafeMapUpdate(st, s, AddUpdater(SafeMapGet(st, s), t))
\* First critical section of RemoveSubscription
RemoveTopicSide(ts, s, t) == SafeMapUpdate(ts, t, RemoveUpdater(SafeMapGet(ts, t), s))
\* Second critical section of RemoveSubscription
RemoveSubscriberSide(st, s, t) == SafeMapUpdate(st, s, RemoveUpdater(SafeMapGet(st, s), t))

\* The registry as a pair, for the whole-call operators.
Registry(ts, st) == [ts |-> ts, st |-> st]

RemoveSubscriptionTopicOnly(reg, s, t) ==
    Registry(RemoveTopicSide(reg.ts, s, t), reg.st)

AddSubscriptionOp(reg, s, t) ==
    Registry(AddTopicSide(reg.ts, s, t), AddSubscriberSide(reg.st, s, t))

RemoveSubscriptionOp(reg, s, t) ==
    Registry(RemoveTopicSide(reg.ts, s, t), RemoveSubscriberSide(reg.st, s, t))

\* GetTopicSubscribers / GetSubscriberTopics: the elements of the inner map, nil
\* (no elements) when the key is absent.
GetTopicSubscribers(ts, t) == SafeMapGet(ts, t).value
GetSubscriberTopics(st, s) == SafeMapGet(st, s).value

\* RemoveSubscriber: RemoveSubscription for every topic of the snapshot
\* GetSubscriberTopics returned, one after the other.
RECURSIVE RemoveEach(_, _, _)
RemoveEach(reg, s, todo) ==
    IF todo = {} THEN reg
    ELSE LET t == CHOOSE x \in todo : TRUE
         IN RemoveEach(RemoveSubscriptionOp(reg, s, t), s, todo \ {t})

RemoveSubscriberOp(reg, s) == RemoveEach(reg, s, GetSubscriberTopics(reg.st, s))

\* GetAllTopics / GetAllSubscribers and their counts
GetAllTopics(ts) == SafeMapKeys(ts)
GetAllSubscribers(st) == SafeMapKeys(st)
GetAllTopicsCount(ts) == SafeMapLength(ts)
GetAllSubscribersCount(st) == SafeMapLength(st)

\* ---------------------------------------------------------------- Message

\* One hour, in the clock's unit (a second).
defaultMessageTTL == 3600

NoMessage ==
    [made |-> FALSE, ID |-> 0, Topic |-> "", Delay |-> 0, CreatedAt |-> 0, DeliverAt |-> 0,
     TTL |-> 0, ExpiresAt |-> 0]

\* NewMessage at clock reading t; the id is "msg_" and the reading's decimal
\* digits, one id per reading, held here as the reading.
NewMessage(topic, t) ==
    [made |-> TRUE, ID |-> t, Topic |-> topic, Delay |-> 0, CreatedAt |-> t, DeliverAt |-> t,
     TTL |-> defaultMessageTTL, ExpiresAt |-> t + defaultMessageTTL]

SetDelay(m, delay) == [m EXCEPT !.Delay = delay, !.DeliverAt = m.CreatedAt + delay]

SetTTL(m, ttl) == [m EXCEPT !.TTL = ttl, !.ExpiresAt = m.CreatedAt + ttl]

\* IsExpired at clock reading t: now.After(ExpiresAt).
IsExpired(m, t) == t > m.ExpiresAt

\* ------------------------------------------------------- initial conditions

\* NewSubscriptionManager: both maps empty; no registry call in flight.
RegistryInit ==
    /\ topicSubscribers = EmptyMap
    /\ subscriberTopics = EmptyMap

NoCalls == [c \in {} |-> [pc |-> "idle"]]

\* NewMessageBroker(cfg): stopped, nothing stored, queued or scheduled, no
\* goroutine spawned; the Start, Stop, Publish and CancelDelayedMessage calls
\* of the four sets are still to be made.
BrokerInit(cfg, starters, stoppers, pubs, cancellers) ==
    /\ config = cfg
    /\ running = 0
    /\ ctxDone = FALSE
    /\ chClosed = FALSE
    /\ pendingMessages = <<>>
    /\ messages = EmptyMap
    /\ deliveryTimers = EmptyMap
    /\ msgs = [m \in Msgs |-> NoMessage]
    /\ timer = [m \in Msgs |-> [st |-> "none", due |-> 0]]
    /\ worker = <<>>
    /\ callback = [m \in Msgs |-> [pc |-> "none", ids |-> {}]]
    /\ handler = [m \in Msgs |-> [s \in Subs |-> "none"]]
    /\ cleaner = <<>>
    /\ monitor = <<>>
    /\ starter = [c \in starters |-> [pc |-> "idle", res |-> "none"]]
    /\ stopper = [c \in stoppers |-> [pc |-> "idle", res |-> "none"]]
    /\ publisher = [p \in pubs |-> [pc |-> "idle", res |-> "none"]]
    /\ canceller = [c \in cancellers |-> [pc |-> "idle", id |-> 0, m |-> 0, stopped |-> FALSE,
                                          res |-> "none"]]
    /\ now = 0
    /\ expiredDrop = {}

\* NewSubscriber(id) for each id of `ids`: an empty handler table each.
NoSubscribers ==
    /\ subscribers = {}
    /\ subscriptions = [s \in Subs |-> {}]

\* ------------------------------------------- the registry, sequential calls

\* AddSubscription(subscriberID, topic), the whole call.
AddSubscription(s, t) ==
    LET reg == AddSubscriptionOp(Registry(topicSubscribers, subscriberTopics), s, t)
    IN /\ topicSubscribers' = reg.ts
       /\ subscriberTopics' = reg.st
       /\ UNCHANGED <<rcall, brokerVars>>

\* RemoveSubscription(subscriberID, topic), the whole call.
RemoveSubscription(s, t) ==
    LET reg == RemoveSubscriptionOp(Registry(topicSubscribers, subscriberTopics), s, t)
    IN /\ topicSubscribers' = reg.ts
       /\ subscriberTopics' = reg.st
       /\ UNCHANGED <<rcall, brokerVars>>

\* RemoveSubscriber(subscriberID), the whole call.
RemoveSubscriber(s) ==
    LET reg == RemoveSubscriberOp(Registry(topicSubscribers, subscriberTopics), s)
    IN /\ topicSubscribers' = reg.ts
       /\ subscriberTopics' = reg.st
       /\ UNCHANGED <<rcall, brokerVars>>

InitRegSeq ==
    /\ RegistryInit
    /\ rcall = NoCalls
    /\ BrokerInit([MaxConcurrency |-> 1, QueueSize |-> 1], {}, {}, {}, {})
    /\ NoSubscribers

NextRegSeq ==
    \/ \E s \in Subs, t \in Topics : AddSubscription(s, t)
    \/ \E s \in Subs, t \in Topics : RemoveSubscription(s, t)
    \/ \E s \in Subs : RemoveSubscriber(s)

SpecRegSeq == InitRegSeq /\ [][NextRegSeq]_vars

\* C1: under sequential AddSubscription / RemoveSubscription / RemoveSubscriber
\* calls, s is in GetTopicSubscribers(t) iff t is in GetSubscriberTopics(s), for
\* every subscriber s and topic t.
C1_InvertedIndex ==
    \A s \in Subs, t \in Topics :
        s \in GetTopicSubscribers(topicSubscribers, t)
            <=> t \in GetSubscriberTopics(subscriberTopics, s)

\* A registry that has seen additions and a removal: one subscriber on two
\* topics, another topic's last subscriber gone.
C1_Witness ==
    /\ GetSubscriberTopics(subscriberTopics, "s1") = {"t1", "t2"}
    /\ GetTopicSubscribers(topicSubscribers, "t1") = {"s1", "s2"}
    /\ "t3" \notin GetAllTopics(topicSubscribers)
    /\ "s3" \in GetAllSubscribers(subscriberTopics)

\* ------------------------------------------- the registry, concurrent calls
\* One step per SafeMap critical section (a Get or an Update under the shard
\* lock). GetSubscriberTopics takes the inner map under the read lock and walks
\* it after the lock is released, so the walk is a step of its own; an Update
\* of the same key in between writes the map being walked.

IdleCall == [pc |-> "idle", s |-> "", t |-> "", todo |-> {}, dirty |-> FALSE]

\* The calls still walking subscriber s's inner map see it written by caller p.
MarkDirty(calls, p, s) ==
    [q \in DOMAIN calls |->
        IF q # p /\ calls[q].pc = "rs_iter" /\ calls[q].s = s
        THEN [calls[q] EXCEPT !.dirty = TRUE] ELSE calls[q]]

\* AddSubscription, first Update (topicSubscribers).
ConcAdd1(p, s, t) ==
    /\ rcall[p].pc = "idle"
    /\ topicSubscribers' = AddTopicSide(topicSubscribers, s, t)
    /\ rcall' = [rcall EXCEPT ![p] = [IdleCall EXCEPT !.pc = "add2", !.s = s, !.t = t]]
    /\ UNCHANGED <<subscriberTopics, brokerVars>>

\* AddSubscription, second Update (subscriberTopics), and return.
ConcAdd2(p) ==
    /\ rcall[p].pc = "add2"
    /\ subscriberTopics' = AddSubscriberSide(subscriberTopics, rcall[p].s, rcall[p].t)
    /\ rcall' = [MarkDirty(rcall, p, rcall[p].s) EXCEPT ![p] = IdleCall]
    /\ UNCHANGED <<topicSubscribers, brokerVars>>

\* RemoveSubscription, first Update (topicSubscribers).
ConcRemove1(p, s, t) ==
    /\ rcall[p].pc = "idle"
    /\ topicSubscribers' = RemoveTopicSide(topicSubscribers, s, t)
    /\ rcall' = [rcall EXCEPT ![p] = [IdleCall EXCEPT !.pc = "rem2", !.s = s, !.t = t]]
    /\ UNCHANGED <<subscriberTopics, brokerVars>>

\* RemoveSubscription, second Update (subscriberTopics), and return.
ConcRemove2(p) ==
    /\ rcall[p].pc = "rem2"
    /\ subscriberTopics' = RemoveSubscriberSide(subscriberTopics, rcall[p].s, rcall[p].t)
    /\ rcall' = [MarkDirty(rcall, p, rcall[p].s) EXCEPT ![p] = IdleCall]
    /\ UNCHANGED <<topicSubscribers, brokerVars>>

\* RemoveSubscriber: GetSubscriberTopics' Get under the read lock. An absent key
\* gives nil and the call returns; otherwise the inner map is held for the walk.
ConcRsGet(p, s) ==
    /\ rcall[p].pc = "idle"
    /\ LET got == SafeMapGet(subscriberTopics, s)
       IN rcall' = [rcall EXCEPT ![p] =
            IF got.ok
            THEN [IdleCall EXCEPT !.pc = "rs_iter", !.s = s, !.todo = got.value]
            ELSE IdleCall]
    /\ UNCHANGED <<topicSubscribers, subscriberTopics, brokerVars>>

\* RemoveSubscriber: the walk of the inner map, outside the lock. Unwritten since
\* the Get, it yields the map's elements. Written meanwhile (a data race on a Go
\* map), it yields any of the elements the map held at the Get or holds now.
ConcRsIter(p) ==
    /\ rcall[p].pc = "rs_iter"
    /\ \E topics \in SUBSET (rcall[p].todo
                              \cup GetSubscriberTopics(subscriberTopics, rcall[p].s)) :
          /\ ~rcall[p].dirty => topics = rcall[p].todo
          /\ rcall' = [rcall EXCEPT ![p] =
                [@ EXCEPT !.pc = IF topics = {} THEN "idle" ELSE "rs_loop",
                          !.s = IF topics = {} THEN "" ELSE @,
                          !.todo = topics, !.dirty = FALSE]]
    /\ UNCHANGED <<topicSubscribers, subscriberTopics, brokerVars>>

\* RemoveSubscriber: the walk raced by a write, detected by the runtime ("fatal
\* error: concurrent map iteration and map write"); the call never returns.
ConcRsFatal(p) ==
    /\ rcall[p].pc = "rs_iter"
    /\ rcall[p].dirty
    /\ rcall' = [rcall EXCEPT ![p] = [IdleCall EXCEPT !.pc = "fatal"]]
    /\ UNCHANGED <<topicSubscribers, subscriberTopics, brokerVars>>

\* RemoveSubscriber: RemoveSubscription of the next topic, first Update.
ConcRsRemove1(p) ==
    /\ rcall[p].pc = "rs_loop"
    /\ \E t \in rcall[p].todo :
          /\ topicSubscribers' = RemoveTopicSide(topicSubscribers, rcall[p].s, t)
          /\ rcall' = [rcall EXCEPT ![p] = [@ EXCEPT !.pc = "rs_rem2", !.t = t]]
    /\ UNCHANGED <<subscriberTopics, brokerVars>>

\* RemoveSubscriber: RemoveSubscription of that topic, second Update; the call
\* returns after the last topic.
ConcRsRemove2(p) ==
    /\ rcall[p].pc = "rs_rem2"
    /\ subscriberTopics' = RemoveSubscriberSide(subscriberTopics, rcall[p].s, rcall[p].t)
    /\ LET left == rcall[p].todo \ {rcall[p].t}
       IN rcall' = [MarkDirty(rcall, p, rcall[p].s) EXCEPT ![p] =
            IF left = {} THEN IdleCall
            ELSE [rcall[p] EXCEPT !.pc = "rs_loop", !.t = "", !.todo = left]]
    /\ UNCHANGED <<topicSubscribers, brokerVars>>

InitRegConc ==
    /\ RegistryInit
    /\ rcall = [p \in RegCallers |-> IdleCall]
    /\ BrokerInit([MaxConcurrency |-> 1, QueueSize |-> 1], {}, {}, {}, {})
    /\ NoSubscribers

NextRegConc ==
    \E p \in RegCallers :
        \/ \E s \in ConcSubs, t \in ConcTopics : ConcAdd1(p, s, t)
        \/ ConcAdd2(p)
        \/ \E s \in ConcSubs, t \in ConcTopics : ConcRemove1(p, s, t)
        \/ ConcRemove2(p)
        \/ \E s \in ConcSubs : ConcRsGet(p, s)
        \/ ConcRsIter(p)
        \/ ConcRsFatal(p)
        \/ ConcRsRemove1(p)
        \/ ConcRsRemove2(p)

SpecRegConc == InitRegConc /\ [][NextRegConc]_vars

\* Every registry call has returned.
RegQuiescent == \A p \in RegCallers : rcall[p].pc = "idle"

\* C2: under every interleaving of concurrent AddSubscription, RemoveSubscription
\* and RemoveSubscriber calls, once all calls have returned the two indices
\* agree: s is in topicSubscribers[t] iff t is in subscriberTopics[s].
C2_NoDrift ==
    RegQuiescent =>
        \A s \in ConcSubs, t \in ConcTopics :
            s \in GetTopicSubscribers(topicSubscribers, t)
                <=> t \in GetSubscriberTopics(subscriberTopics, s)

\* ------------------------------------------------------------ the broker
\* One step per critical section another task can observe: an atomic operation
\* on the running flag, a SafeMap call, a channel operation, a timer operation,
\* a goroutine start. Every call (Start, Stop, Publish, CancelDelayedMessage) is
\* made once by its caller, which keeps what the call returned in res.

Returned(call, result) == [call EXCEPT !.pc = "done", !.res = result]

\* b.wg's counter: the spawned goroutines that have not called wg.Done.
wg ==
    Cardinality({w \in DOMAIN worker : worker[w].pc # "exited"})
        + Cardinality({g \in DOMAIN cleaner : cleaner[g] # "exited"})
        + Cardinality({g \in DOMAIN monitor : monitor[g] # "exited"})

NewWorker == [pc |-> "recv", m |-> 0, ids |-> {}]

\* Start: CompareAndSwapInt32(&b.running, 0, 1); "already running" when it fails.
StartCAS(c) ==
    /\ starter[c].pc = "idle"
    /\ IF running = 0
       THEN /\ running' = 1
            /\ starter' = [starter EXCEPT ![c].pc = "spawn"]
       ELSE /\ starter' = [starter EXCEPT ![c] = Returned(@, "already running")]
            /\ UNCHANGED running
    /\ UNCHANGED <<topicSubscribers, subscriberTopics, rcall, config, ctxDone,
       chClosed, pendingMessages, messages, deliveryTimers,
       subscribers, subscriptions, msgs, timer, worker, callback,
       handler, cleaner, monitor, stopper, publisher, canceller,
       now, expiredDrop>>

\* Start after the swap: wg.Add and go for MaxConcurrency distributors, the
\* cleaner and the monitor; return nil.
StartSpawn(c) ==
    /\ starter[c].pc = "spawn"
    /\ worker' = worker \o [i \in 1..config.MaxConcurrency |-> NewWorker]
    /\ cleaner' = Append(cleaner, "run")
    /\ monitor' = Append(monitor, "run")
    /\ starter' = [starter EXCEPT ![c] = Returned(@, "ok")]
    /\ UNCHANGED <<topicSubscribers, subscriberTopics, rcall, config, running,
       ctxDone, chClosed, pendingMessages, messages,
       deliveryTimers, subscribers, subscriptions, msgs, timer,
       callback, handler, stopper, publisher, canceller, now,
       expiredDrop>>

\* Stop: CompareAndSwapInt32(&b.running, 1, 0); "not running" when it fails.
StopCAS(c) ==
    /\ stopper[c].pc = "idle"
    /\ IF running = 1
       THEN /\ running' = 0
            /\ stopper' = [stopper EXCEPT ![c].pc = "cancel"]
       ELSE /\ stopper' = [stopper EXCEPT ![c] = Returned(@, "not running")]
            /\ UNCHANGED running
    /\ UNCHANGED <<topicSubscribers, subscriberTopics, rcall, config, ctxDone,
       chClosed, pendingMessages, messages, deliveryTimers,
       subscribers, subscriptions, msgs, timer, worker, callback,
       handler, cleaner, monitor, starter, publisher, canceller,
       now, expiredDrop>>

\* Stop: b.cancel()
StopCancel(c) ==
    /\ stopper[c].pc = "cancel"
    /\ ctxDone' = TRUE
    /\ stopper' = [stopper EXCEPT ![c].pc = "close"]
    /\ UNCHANGED <<topicSubscribers, subscriberTopics, rcall, config, running,
       chClosed, pendingMessages, messages, deliveryTimers,
       subscribers, subscriptions, msgs, timer, worker, callback,
       handler, cleaner, monitor, starter, publisher, canceller,
       now, expiredDrop>>

\* Stop: close(b.pendingMessages); closing a closed channel panics.
StopClose(c) ==
    /\ stopper[c].pc = "close"
    /\ IF chClosed
       THEN /\ stopper' = [stopper EXCEPT ![c] = [pc |-> "panic", res |-> "panic"]]
            /\ UNCHANGED chClosed
       ELSE /\ chClosed' = TRUE
            /\ stopper' = [stopper EXCEPT ![c].pc = "timers"]
    /\ UNCHANGED <<topicSubscribers, subscriberTopics, rcall, config, running,
       ctxDone, pendingMessages, messages, deliveryTimers,
       subscribers, subscriptions, msgs, timer, worker, callback,
       handler, cleaner, monitor, starter, publisher, canceller,
       now, expiredDrop>>

\* timer.Stop(): an armed timer is stopped (and reports true); a timer that has
\* fired or was stopped before is left as it is.
TimerStop(tm) == IF tm.st = "armed" THEN [tm EXCEPT !.st = "stopped"] ELSE tm

\* Stop: deliveryTimers.ForEachAsync(timer.Stop) over the entries of the map.
StopTimers(c) ==
    /\ stopper[c].pc = "timers"
    /\ timer' = [m \in Msgs |->
            IF \E id \in SafeMapKeys(deliveryTimers) : deliveryTimers[id] = m
            THEN TimerStop(timer[m]) ELSE timer[m]]
    /\ stopper' = [stopper EXCEPT ![c].pc = "replace"]
    /\ UNCHANGED <<topicSubscribers, subscriberTopics, rcall, config, running,
       ctxDone, chClosed, pendingMessages, messages,
       deliveryTimers, subscribers, subscriptions, msgs, worker,
       callback, handler, cleaner, monitor, starter, publisher,
       canceller, now, expiredDrop>>

\* Stop: b.deliveryTimers = NewSafeMap(): the map is replaced by an empty one.
StopReplace(c) ==
    /\ stopper[c].pc = "replace"
    /\ deliveryTimers' = EmptyMap
    /\ stopper' = [stopper EXCEPT ![c].pc = "wait"]
    /\ UNCHANGED <<topicSubscribers, subscriberTopics, rcall, config, running,
       ctxDone, chClosed, pendingMessages, messages, subscribers,
       subscriptions, msgs, timer, worker, callback, handler,
       cleaner, monitor, starter, publisher, canceller, now,
       expiredDrop>>

\* Stop: b.wg.Wait() returns once the counter is zero; return nil.
StopWait(c) ==
    /\ stopper[c].pc = "wait"
    /\ wg = 0
    /\ stopper' = [stopper EXCEPT ![c] = Returned(@, "ok")]
    /\ UNCHANGED <<topicSubscribers, subscriberTopics, rcall, config, running,
       ctxDone, chClosed, pendingMessages, messages,
       deliveryTimers, subscribers, subscriptions, msgs, timer,
       worker, callback, handler, cleaner, monitor, starter,
       publisher, canceller, now, expiredDrop>>

\* cleanupExpiredMessages: ForEach collects the ids of the expired messages,
\* then each is deleted from the store.
cleanupExpiredMessages(store, t) ==
    [id \in {k \in SafeMapKeys(store) : ~IsExpired(msgs[store[k]], t)} |-> store[id]]

\* cleaner: the ticker fired; one pass.
CleanerSweep(g) ==
    /\ cleaner[g] = "run"
    /\ messages' = cleanupExpiredMessages(messages, now)
    /\ UNCHANGED <<topicSubscribers, subscriberTopics, rcall, config, running,
       ctxDone, chClosed, pendingMessages, deliveryTimers,
       subscribers, subscriptions, msgs, timer, worker, callback,
       handler, cleaner, monitor, starter, stopper, publisher,
       canceller, now, expiredDrop>>

\* cleaner: <-b.ctx.Done(); return (wg.Done).
CleanerExit(g) ==
    /\ cleaner[g] = "run"
    /\ ctxDone
    /\ cleaner' = [cleaner EXCEPT ![g] = "exited"]
    /\ UNCHANGED <<topicSubscribers, subscriberTopics, rcall, config, running,
       ctxDone, chClosed, pendingMessages, messages,
       deliveryTimers, subscribers, subscriptions, msgs, timer,
       worker, callback, handler, monitor, starter, stopper,
       publisher, canceller, now, expiredDrop>>

\* monitor: <-b.ctx.Done(); return (wg.Done). Its ticker branch only logs
\* GetStats and changes nothing.
MonitorExit(g) ==
    /\ monitor[g] = "run"
    /\ ctxDone
    /\ monitor' = [monitor EXCEPT ![g] = "exited"]
    /\ UNCHANGED <<topicSubscribers, subscriberTopics, rcall, config, running,
       ctxDone, chClosed, pendingMessages, messages,
       deliveryTimers, subscribers, subscriptions, msgs, timer,
       worker, callback, handler, cleaner, starter, stopper,
       publisher, canceller, now, expiredDrop>>

\* ------------------------------------------------------- Publish

\* The message a caller hands to Publish: NewMessage, then SetDelay and SetTTL
\* where the caller sets them (delay 0 and ttl 0 stand for "not set").
MakeMessage(topic, delay, ttl, t) ==
    LET m0 == NewMessage(topic, t)
        m1 == IF delay # 0 THEN SetDelay(m0, delay) ELSE m0
    IN IF ttl # 0 THEN SetTTL(m1, ttl) ELSE m1

\* A Publish that does not read the running flag.
PubCallUnchecked(p, topic, delay, ttl) ==
    /\ publisher[p].pc = "idle"
    /\ now + delay <= MaxTime
    /\ msgs' = [msgs EXCEPT ![p] = MakeMessage(topic, delay, ttl, now)]
    /\ publisher' = [publisher EXCEPT ![p] = [@ EXCEPT !.pc = "store"]]
    /\ UNCHANGED <<topicSubscribers, subscriberTopics, rcall, config, running,
                    ctxDone, chClosed, pendingMessages, messages,
                    deliveryTimers, subscribers, subscriptions, timer, worker,
                    callback, handler, cleaner, monitor, starter, stopper,
                    canceller, now, expiredDrop>>

\* Publish: the message is constructed and Publish called; atomic.LoadInt32 of
\* the running flag, "not running" when it is 0. The deliver-at of a delayed
\* message lies within the modelled time.
PubCall(p, topic, delay, ttl) ==
    /\ publisher[p].pc = "idle"
    /\ now + delay <= MaxTime
    /\ msgs' = [msgs EXCEPT ![p] = MakeMessage(topic, delay, ttl, now)]
    /\ publisher' = [publisher EXCEPT ![p] =
            IF running = 0 THEN Returned(@, "not running")
            ELSE [@ EXCEPT !.pc = "store"]]
    /\ UNCHANGED <<topicSubscribers, subscriberTopics, rcall, config, running,
                    ctxDone, chClosed, pendingMessages, messages,
                    deliveryTimers, subscribers, subscriptions, timer, worker,
                    callback, handler, cleaner, monitor, starter, stopper,
                    canceller, now, expiredDrop>>

\* Publish: b.messages.Set(msg.ID, msg)
PubStore(p) ==
    /\ publisher[p].pc = "store"
    /\ messages' = SafeMapSet(messages, msgs[p].ID, p)
    /\ publisher' = [publisher EXCEPT ![p].pc = "select"]
    /\ UNCHANGED <<topicSubscribers, subscriberTopics, rcall, config, running,
                    ctxDone, chClosed, pendingMessages, deliveryTimers,
                    subscribers, subscriptions, msgs, timer, worker, callback,
                    handler, cleaner, monitor, starter, stopper, canceller, now,
                    expiredDrop>>

\* The backlog can take a send: the channel is open and its buffer has room.
CanSend == ~chClosed /\ Len(pendingMessages) < config.QueueSize

\* Publish: the select is entered with the send ready; the message is queued.
PubSend(p) ==
    /\ publisher[p].pc = "select"
    /\ CanSend
    /\ pendingMessages' = Append(pendingMessages, p)
    /\ publisher' = [publisher EXCEPT ![p] = Returned(@, "ok")]
    /\ UNCHANGED <<topicSubscribers, subscriberTopics, rcall, config, running,
                    ctxDone, chClosed, messages, deliveryTimers, subscribers,
                    subscriptions, msgs, timer, worker, callback, handler,
                    cleaner, monitor, starter, stopper, canceller, now,
                    expiredDrop>>

\* Publish: the select is entered with <-b.ctx.Done() ready; "shutting down".
PubShutdown(p) ==
    /\ publisher[p].pc = "select"
    /\ ctxDone
    /\ publisher' = [publisher EXCEPT ![p] = Returned(@, "shutting down")]
    /\ UNCHANGED <<topicSubscribers, subscriberTopics, rcall, config, running,
                    ctxDone, chClosed, pendingMessages, messages,
                    deliveryTimers, subscribers, subscriptions, msgs, timer,
                    worker, callback, handler, cleaner, monitor, starter,
                    stopper, canceller, now, expiredDrop>>

\* Publish: the select is entered with the channel closed and picks the send
\* case: send on closed channel, a panic.
PubPanic(p) ==
    /\ publisher[p].pc = "select"
    /\ chClosed
    /\ publisher' = [publisher EXCEPT ![p] = [pc |-> "panic", res |-> "panic"]]
    /\ UNCHANGED <<topicSubscribers, subscriberTopics, rcall, config, running,
                    ctxDone, chClosed, pendingMessages, messages,
                    deliveryTimers, subscribers, subscriptions, msgs, timer,
                    worker, callback, handler, cleaner, monitor, starter,
                    stopper, canceller, now, expiredDrop>>

\* Publish: the select is entered with no case ready (backlog full, context
\* live); the caller parks on both channels.
PubPark(p) ==
    /\ publisher[p].pc = "select"
    /\ ~chClosed /\ ~CanSend /\ ~ctxDone
    /\ publisher' = [publisher EXCEPT ![p].pc = "parked"]
    /\ UNCHANGED <<topicSubscribers, subscriberTopics, rcall, config, running,
                    ctxDone, chClosed, pendingMessages, messages,
                    deliveryTimers, subscribers, subscriptions, msgs, timer,
                    worker, callback, handler, cleaner, monitor, starter,
                    stopper, canceller, now, expiredDrop>>

\* Publish: a parked caller is woken by a receiver that made room; queued.
PubWakeSend(p) ==
    /\ publisher[p].pc = "parked"
    /\ CanSend
    /\ pendingMessages' = Append(pendingMessages, p)
    /\ publisher' = [publisher EXCEPT ![p] = Returned(@, "ok")]
    /\ UNCHANGED <<topicSubscribers, subscriberTopics, rcall, config, running,
                    ctxDone, chClosed, messages, deliveryTimers, subscribers,
                    subscriptions, msgs, timer, worker, callback, handler,
                    cleaner, monitor, starter, stopper, canceller, now,
                    expiredDrop>>

\* Publish: a parked caller is woken by the cancellation (cancel() precedes
\* close(), and the wake-up takes the caller off the backlog's wait queue);
\* "shutting down".
PubWakeShutdown(p) ==
    /\ publisher[p].pc = "parked"
    /\ ctxDone
    /\ publisher' = [publisher EXCEPT ![p] = Returned(@, "shutting down")]
    /\ UNCHANGED <<topicSubscribers, subscriberTopics, rcall, config, running,
                    ctxDone, chClosed, pendingMessages, messages,
                    deliveryTimers, subscribers, subscriptions, msgs, timer,
                    worker, callback, handler, cleaner, monitor, starter,
                    stopper, canceller, now, expiredDrop>>

\* ------------------------------------------------ CancelDelayedMessage

\* A cancel that, finding no entry for the id, takes the message off the store.
CancelGetPurging(c, m) ==
    /\ canceller[c].pc = "idle"
    /\ msgs[m].made
    /\ LET tm == SafeMapGet(deliveryTimers, msgs[m].ID)
       IN /\ canceller' = [canceller EXCEPT ![c] =
                IF tm.ok THEN [@ EXCEPT !.pc = "stop", !.id = msgs[m].ID, !.m = tm.value]
                ELSE [Returned(@, "false") EXCEPT !.id = msgs[m].ID]]
          /\ messages' = IF tm.ok THEN messages ELSE SafeMapDelete(messages, msgs[m].ID)
    /\ UNCHANGED <<topicSubscribers, subscriberTopics, rcall, config, running,
                    ctxDone, chClosed, pendingMessages, deliveryTimers,
                    subscribers, subscriptions, msgs, timer, worker, callback,
                    handler, cleaner, monitor, starter, stopper, publisher,
                    now, expiredDrop>>

\* CancelDelayedMessage(msgs[m].ID): deliveryTimers.Get(msgID); false when there
\* is no entry.
CancelGet(c, m) ==
    /\ canceller[c].pc = "idle"
    /\ msgs[m].made
    /\ canceller' = [canceller EXCEPT ![c] =
            LET tm == SafeMapGet(deliveryTimers, msgs[m].ID)
            IN IF tm.ok THEN [@ EXCEPT !.pc = "stop", !.id = msgs[m].ID, !.m = tm.value]
               ELSE [Returned(@, "false") EXCEPT !.id = msgs[m].ID]]
    /\ UNCHANGED <<topicSubscribers, subscriberTopics, rcall, config, running,
                    ctxDone, chClosed, pendingMessages, messages,
                    deliveryTimers, subscribers, subscriptions, msgs, timer,
                    worker, callback, handler, cleaner, monitor, starter,
                    stopper, publisher, now, expiredDrop>>

\* A cancel that reports the opposite of what timer.Stop() would and leaves the
\* timer alone.
CancelStopInverted(c) ==
    /\ canceller[c].pc = "stop"
    /\ canceller' = [canceller EXCEPT ![c].pc = "delete",
                                      ![c].stopped = (timer[canceller[c].m].st # "armed")]
    /\ UNCHANGED <<topicSubscribers, subscriberTopics, rcall, config, running,
                    ctxDone, chClosed, pendingMessages, messages,
                    deliveryTimers, subscribers, subscriptions, msgs, timer,
                    worker, callback, handler, cleaner, monitor, starter,
                    stopper, publisher, now, expiredDrop>>

\* CancelDelayedMessage: stopped := timer.Stop()
CancelStop(c) ==
    /\ canceller[c].pc = "stop"
    /\ timer' = [timer EXCEPT ![canceller[c].m] = TimerStop(@)]
    /\ canceller' = [canceller EXCEPT ![c].pc = "delete",
                                      ![c].stopped = (timer[canceller[c].m].st = "armed")]
    /\ UNCHANGED <<topicSubscribers, subscriberTopics, rcall, config, running,
                    ctxDone, chClosed, pendingMessages, messages,
                    deliveryTimers, subscribers, subscriptions, msgs, worker,
                    callback, handler, cleaner, monitor, starter, stopper,
                    publisher, now, expiredDrop>>

\* CancelDelayedMessage: deliveryTimers.Delete(msgID); return stopped.
CancelDelete(c) ==
    /\ canceller[c].pc = "delete"
    /\ deliveryTimers' = SafeMapDelete(deliveryTimers, canceller[c].id)
    /\ canceller' = [canceller EXCEPT ![c] =
            Returned(@, IF canceller[c].stopped THEN "true" ELSE "false")]
    /\ UNCHANGED <<topicSubscribers, subscriberTopics, rcall, config, running,
                    ctxDone, chClosed, pendingMessages, messages, subscribers,
                    subscriptions, msgs, timer, worker, callback, handler,
                    cleaner, monitor, starter, stopper, publisher, now,
                    expiredDrop>>

\* ------------------------------------------------- dispatch and delivery

\* A subscriber that drops every message handed to it.
HandleMessageDropped(h, s, m) == h

\* Subscriber.HandleMessage(copy of m) on subscriber s: the handler table is
\* looked up and, with an entry for the topic, go processMessage: the handler
\* goroutine is spawned ("twice" when one was spawned for m and s before).
\* Without an entry the message is dropped.
HandleMessage(h, s, m) ==
    IF msgs[m].Topic \in subscriptions[s]
    THEN [h EXCEPT ![m][s] = IF @ = "none" THEN "spawned" ELSE "twice"]
    ELSE h

\* A target list that holds one of the ids only.
TargetSubscribersOne(ids) ==
    IF ids \cap subscribers = {} THEN {}
    ELSE {CHOOSE cid \in ids \cap subscribers : TRUE}

\* sendToSubscriber, its target list: subscribers.Get for each id the registry
\* gave; the ids no longer registered are skipped.
TargetSubscribers(ids) == {cid \in ids : cid \in subscribers}

\* A timer that runs its function at once, whatever the duration.
AfterFuncImmediate(d, t) == [st |-> "armed", due |-> t]

\* time.AfterFunc(d, f) at clock reading t: f runs no earlier than t + d, and at
\* once when d is not positive.
AfterFunc(d, t) == [st |-> "armed", due |-> IF d > 0 THEN t + d ELSE t]

\* messageDistributor: a message is received from the backlog.
WorkerRecv(w) ==
    /\ worker[w].pc = "recv"
    /\ Len(pendingMessages) > 0
    /\ worker' = [worker EXCEPT ![w] = [@ EXCEPT !.pc = "sel", !.m = Head(pendingMessages)]]
    /\ pendingMessages' = Tail(pendingMessages)
    /\ UNCHANGED <<topicSubscribers, subscriberTopics, rcall, config, running,
                    ctxDone, chClosed, messages, deliveryTimers, subscribers,
                    subscriptions, msgs, timer, callback, handler, cleaner,
                    monitor, starter, stopper, publisher, canceller, now,
                    expiredDrop>>

\* messageDistributor: the range loop ends on the closed, drained channel
\* (wg.Done).
WorkerClosed(w) ==
    /\ worker[w].pc = "recv"
    /\ Len(pendingMessages) = 0
    /\ chClosed
    /\ worker' = [worker EXCEPT ![w] = [NewWorker EXCEPT !.pc = "exited"]]
    /\ UNCHANGED <<topicSubscribers, subscriberTopics, rcall, config, running,
                    ctxDone, chClosed, pendingMessages, messages,
                    deliveryTimers, subscribers, subscriptions, msgs, timer,
                    callback, handler, cleaner, monitor, starter, stopper,
                    publisher, canceller, now, expiredDrop>>

\* messageDistributor: the select finds <-b.ctx.Done() ready; return (wg.Done),
\* the message it holds is not distributed.
WorkerCancelled(w) ==
    /\ worker[w].pc = "sel"
    /\ ctxDone
    /\ worker' = [worker EXCEPT ![w] = [NewWorker EXCEPT !.pc = "exited"]]
    /\ UNCHANGED <<topicSubscribers, subscriberTopics, rcall, config, running,
                    ctxDone, chClosed, pendingMessages, messages,
                    deliveryTimers, subscribers, subscriptions, msgs, timer,
                    callback, handler, cleaner, monitor, starter, stopper,
                    publisher, canceller, now, expiredDrop>>

\* A worker that drops the expired message and leaves it in the store.
WorkerExpiredKept(w) ==
    /\ worker[w].pc = "sel"
    /\ ~ctxDone
    /\ IsExpired(msgs[worker[w].m], now)
    /\ messages' = messages
    /\ expiredDrop' = expiredDrop \cup {worker[w].m}
    /\ worker' = [worker EXCEPT ![w] = NewWorker]
    /\ UNCHANGED <<topicSubscribers, subscriberTopics, rcall, config, running,
                    ctxDone, chClosed, pendingMessages, deliveryTimers,
                    subscribers, subscriptions, msgs, timer, callback, handler,
                    cleaner, monitor, starter, stopper, publisher, canceller,
                    now>>

\* distributeMessage (the select took its default case): the message is expired;
\* messages.Delete and return.
WorkerExpired(w) ==
    /\ worker[w].pc = "sel"
    /\ ~ctxDone
    /\ IsExpired(msgs[worker[w].m], now)
    /\ messages' = SafeMapDelete(messages, msgs[worker[w].m].ID)
    /\ expiredDrop' = expiredDrop \cup {worker[w].m}
    /\ worker' = [worker EXCEPT ![w] = NewWorker]
    /\ UNCHANGED <<topicSubscribers, subscriberTopics, rcall, config, running,
                    ctxDone, chClosed, pendingMessages, deliveryTimers,
                    subscribers, subscriptions, msgs, timer, callback, handler,
                    cleaner, monitor, starter, stopper, publisher, canceller,
                    now>>

\* distributeMessage: Delay > 0; time.AfterFunc(DeliverAt.Sub(now), ..) arms the
\* message's timer.
WorkerArm(w) ==
    /\ worker[w].pc = "sel"
    /\ ~ctxDone
    /\ ~IsExpired(msgs[worker[w].m], now)
    /\ msgs[worker[w].m].Delay > 0
    /\ timer' = [timer EXCEPT ![worker[w].m] = AfterFunc(msgs[worker[w].m].DeliverAt - now, now)]
    /\ worker' = [worker EXCEPT ![w].pc = "set"]
    /\ UNCHANGED <<topicSubscribers, subscriberTopics, rcall, config, running,
                    ctxDone, chClosed, pendingMessages, messages,
                    deliveryTimers, subscribers, subscriptions, msgs, callback,
                    handler, cleaner, monitor, starter, stopper, publisher,
                    canceller, now, expiredDrop>>

\* distributeMessage: deliveryTimers.Set(msg.ID, timer)
WorkerSet(w) ==
    /\ worker[w].pc = "set"
    /\ deliveryTimers' = SafeMapSet(deliveryTimers, msgs[worker[w].m].ID, worker[w].m)
    /\ worker' = [worker EXCEPT ![w] = NewWorker]
    /\ UNCHANGED <<topicSubscribers, subscriberTopics, rcall, config, running,
                    ctxDone, chClosed, pendingMessages, messages, subscribers,
                    subscriptions, msgs, timer, callback, handler, cleaner,
                    monitor, starter, stopper, publisher, canceller, now,
                    expiredDrop>>

\* distributeMessage with Delay <= 0, sendToSubscriber: GetTopicSubscribers; with
\* no subscriber the message is deleted from the store and dropped.
WorkerLookup(w) ==
    /\ worker[w].pc = "sel"
    /\ ~ctxDone
    /\ ~IsExpired(msgs[worker[w].m], now)
    /\ msgs[worker[w].m].Delay <= 0
    /\ LET ids == GetTopicSubscribers(topicSubscribers, msgs[worker[w].m].Topic)
       IN IF ids = {}
          THEN /\ messages' = SafeMapDelete(messages, msgs[worker[w].m].ID)
               /\ worker' = [worker EXCEPT ![w] = NewWorker]
          ELSE /\ worker' = [worker EXCEPT ![w] = [@ EXCEPT !.pc = "resolve", !.ids = ids]]
               /\ UNCHANGED messages
    /\ UNCHANGED <<topicSubscribers, subscriberTopics, rcall, config, running,
                    ctxDone, chClosed, pendingMessages, deliveryTimers,
                    subscribers, subscriptions, msgs, timer, callback, handler,
                    cleaner, monitor, starter, stopper, publisher, canceller,
                    now, expiredDrop>>

\* sendToSubscriber: the target subscribers are looked up in the subscriber map.
WorkerResolve(w) ==
    /\ worker[w].pc = "resolve"
    /\ LET targets == TargetSubscribers(worker[w].ids)
       IN worker' = [worker EXCEPT ![w] =
            IF targets = {} THEN NewWorker
            ELSE [@ EXCEPT !.pc = "handle", !.ids = targets]]
    /\ UNCHANGED <<topicSubscribers, subscriberTopics, rcall, config, running,
                    ctxDone, chClosed, pendingMessages, messages,
                    deliveryTimers, subscribers, subscriptions, msgs, timer,
                    callback, handler, cleaner, monitor, starter, stopper,
                    publisher, canceller, now, expiredDrop>>

\* sendToSubscriber: HandleMessage(&msgCopy) for the next target; back to the
\* range loop after the last.
WorkerHandle(w) ==
    /\ worker[w].pc = "handle"
    /\ \E s \in worker[w].ids :
          /\ handler' = HandleMessage(handler, s, worker[w].m)
          /\ worker' = [worker EXCEPT ![w] =
                IF worker[w].ids = {s} THEN NewWorker
                ELSE [@ EXCEPT !.ids = @ \ {s}]]
    /\ UNCHANGED <<topicSubscribers, subscriberTopics, rcall, config, running,
                    ctxDone, chClosed, pendingMessages, messages,
                    deliveryTimers, subscribers, subscriptions, msgs, timer,
                    callback, cleaner, monitor, starter, stopper, publisher,
                    canceller, now, expiredDrop>>

\* The runtime runs an armed timer's function, in its own goroutine, once the
\* clock has reached the timer's time.
TimerFire(m) ==
    /\ timer[m].st = "armed"
    /\ now >= timer[m].due
    /\ timer' = [timer EXCEPT ![m].st = "fired"]
    /\ callback' = [callback EXCEPT ![m].pc = "delete"]
    /\ UNCHANGED <<topicSubscribers, subscriberTopics, rcall, config, running,
                    ctxDone, chClosed, pendingMessages, messages,
                    deliveryTimers, subscribers, subscriptions, msgs, worker,
                    handler, cleaner, monitor, starter, stopper, publisher,
                    canceller, now, expiredDrop>>

\* The timer's function: deliveryTimers.Delete(msg.ID)
CallbackDelete(m) ==
    /\ callback[m].pc = "delete"
    /\ deliveryTimers' = SafeMapDelete(deliveryTimers, msgs[m].ID)
    /\ callback' = [callback EXCEPT ![m].pc = "lookup"]
    /\ UNCHANGED <<topicSubscribers, subscriberTopics, rcall, config, running,
                    ctxDone, chClosed, pendingMessages, messages, subscribers,
                    subscriptions, msgs, timer, worker, handler, cleaner,
                    monitor, starter, stopper, publisher, canceller, now,
                    expiredDrop>>

\* The timer's function, sendToSubscriber: GetTopicSubscribers; with no
\* subscriber the message is deleted from the store and dropped.
CallbackLookup(m) ==
    /\ callback[m].pc = "lookup"
    /\ LET ids == GetTopicSubscribers(topicSubscribers, msgs[m].Topic)
       IN IF ids = {}
          THEN /\ messages' = SafeMapDelete(messages, msgs[m].ID)
               /\ callback' = [callback EXCEPT ![m].pc = "done"]
          ELSE /\ callback' = [callback EXCEPT ![m] = [pc |-> "resolve", ids |-> ids]]
               /\ UNCHANGED messages
    /\ UNCHANGED <<topicSubscribers, subscriberTopics, rcall, config, running,
                    ctxDone, chClosed, pendingMessages, deliveryTimers,
                    subscribers, subscriptions, msgs, timer, worker, handler,
                    cleaner, monitor, starter, stopper, publisher, canceller,
                    now, expiredDrop>>

\* The timer's function, sendToSubscriber: the target subscribers.
CallbackResolve(m) ==
    /\ callback[m].pc = "resolve"
    /\ LET targets == TargetSubscribers(callback[m].ids)
       IN callback' = [callback EXCEPT ![m] =
            IF targets = {} THEN [pc |-> "done", ids |-> {}]
            ELSE [pc |-> "handle", ids |-> targets]]
    /\ UNCHANGED <<topicSubscribers, subscriberTopics, rcall, config, running,
                    ctxDone, chClosed, pendingMessages, messages,
                    deliveryTimers, subscribers, subscriptions, msgs, timer,
                    worker, handler, cleaner, monitor, starter, stopper,
                    publisher, canceller, now, expiredDrop>>

\* The timer's function, sendToSubscriber: HandleMessage(&msgCopy) for the next
\* target.
CallbackHandle(m) ==
    /\ callback[m].pc = "handle"
    /\ \E s \in callback[m].ids :
          /\ handler' = HandleMessage(handler, s, m)
          /\ callback' = [callback EXCEPT ![m] =
                IF callback[m].ids = {s} THEN [pc |-> "done", ids |-> {}]
                ELSE [@ EXCEPT !.ids = @ \ {s}]]
    /\ UNCHANGED <<topicSubscribers, subscriberTopics, rcall, config, running,
                    ctxDone, chClosed, pendingMessages, messages,
                    deliveryTimers, subscribers, subscriptions, msgs, timer,
                    worker, cleaner, monitor, starter, stopper, publisher,
                    canceller, now, expiredDrop>>

\* processMessage: the spawned goroutine calls the handler; the invocation
\* begins.
HandlerStart(m, s) ==
    /\ handler[m][s] = "spawned"
    /\ handler' = [handler EXCEPT ![m][s] = "invoked"]
    /\ UNCHANGED <<topicSubscribers, subscriberTopics, rcall, config, running,
                    ctxDone, chClosed, pendingMessages, messages,
                    deliveryTimers, subscribers, subscriptions, msgs, timer,
                    worker, callback, cleaner, monitor, starter, stopper,
                    publisher, canceller, now, expiredDrop>>

\* The clock advances.
Tick ==
    /\ now < MaxTime
    /\ now' = now + 1
    /\ UNCHANGED <<topicSubscribers, subscriberTopics, rcall, config, running,
                    ctxDone, chClosed, pendingMessages, messages,
                    deliveryTimers, subscribers, subscriptions, msgs, timer,
                    worker, callback, handler, cleaner, monitor, starter,
                    stopper, publisher, canceller, expiredDrop>>

\* --------------------------------------------------------- specifications

\* The state after RegisterSubscriber(NewSubscriber("s1")) and
\* Subscribe("s1", {"t1": h}) on the new broker: topic t1 has the subscriber s1.
OneSubscription ==
    /\ topicSubscribers = AddTopicSide(EmptyMap, "s1", "t1")
    /\ subscriberTopics = AddSubscriberSide(EmptyMap, "s1", "t1")
    /\ rcall = NoCalls
    /\ subscribers = {"s1"}
    /\ subscriptions = [s \in Subs |-> IF s = "s1" THEN {"t1"} ELSE {}]

\* The one configuration the broker specifications run: a single dispatcher
\* worker behind a backlog of one message.
SmallConfig == [MaxConcurrency |-> 1, QueueSize |-> 1]

\* The state after NewMessageBroker(cfg) and a Start call (a1) that has
\* returned: running, the goroutines spawned.
StartedBroker(cfg, stoppers, pubs, cancellers) ==
    /\ config = cfg
    /\ running = 1
    /\ ctxDone = FALSE
    /\ chClosed = FALSE
    /\ pendingMessages = <<>>
    /\ messages = EmptyMap
    /\ deliveryTimers = EmptyMap
    /\ msgs = [m \in Msgs |-> NoMessage]
    /\ timer = [m \in Msgs |-> [st |-> "none", due |-> 0]]
    /\ worker = [i \in 1..cfg.MaxConcurrency |-> NewWorker]
    /\ callback = [m \in Msgs |-> [pc |-> "none", ids |-> {}]]
    /\ handler = [m \in Msgs |-> [s \in Subs |-> "none"]]
    /\ cleaner = <<"run">>
    /\ monitor = <<"run">>
    /\ starter = [c \in {"a1"} |-> [pc |-> "done", res |-> "ok"]]
    /\ stopper = [c \in stoppers |-> [pc |-> "idle", res |-> "none"]]
    /\ publisher = [p \in pubs |-> [pc |-> "idle", res |-> "none"]]
    /\ canceller = [c \in cancellers |-> [pc |-> "idle", id |-> 0, m |-> 0, stopped |-> FALSE,
                                          res |-> "none"]]
    /\ now = 0
    /\ expiredDrop = {}

\* The steps of Stop, of the goroutines Start spawned, of the timers and of the
\* handler goroutines.
StopSteps ==
    \/ \E c \in DOMAIN stopper : StopCAS(c)
    \/ \E c \in DOMAIN stopper : StopCancel(c)
    \/ \E c \in DOMAIN stopper : StopClose(c)
    \/ \E c \in DOMAIN stopper : StopTimers(c)
    \/ \E c \in DOMAIN stopper : StopReplace(c)
    \/ \E c \in DOMAIN stopper : StopWait(c)

DaemonSteps ==
    \/ \E g \in DOMAIN cleaner : CleanerSweep(g)
    \/ \E g \in DOMAIN cleaner : CleanerExit(g)
    \/ \E g \in DOMAIN monitor : MonitorExit(g)

PublishSteps ==
    \/ \E p \in DOMAIN publisher : PubStore(p)
    \/ \E p \in DOMAIN publisher : PubSend(p)
    \/ \E p \in DOMAIN publisher : PubShutdown(p)
    \/ \E p \in DOMAIN publisher : PubPanic(p)

ParkSteps ==
    \/ \E p \in DOMAIN publisher : PubPark(p)
    \/ \E p \in DOMAIN publisher : PubWakeSend(p)
    \/ \E p \in DOMAIN publisher : PubWakeShutdown(p)

CancelSteps ==
    \/ \E c \in DOMAIN canceller, m \in DOMAIN publisher : CancelGet(c, m)
    \/ \E c \in DOMAIN canceller : CancelStop(c)
    \/ \E c \in DOMAIN canceller : CancelDelete(c)

WorkerSteps ==
    \/ \E w \in DOMAIN worker : WorkerRecv(w)
    \/ \E w \in DOMAIN worker : WorkerClosed(w)
    \/ \E w \in DOMAIN worker : WorkerCancelled(w)
    \/ \E w \in DOMAIN worker : WorkerLookup(w)
    \/ \E w \in DOMAIN worker : WorkerResolve(w)
    \/ \E w \in DOMAIN worker : WorkerHandle(w)
    \/ \E m \in Msgs, s \in Subs : HandlerStart(m, s)

DelaySteps ==
    \/ \E w \in DOMAIN worker : WorkerExpired(w)
    \/ \E w \in DOMAIN worker : WorkerArm(w)
    \/ \E w \in DOMAIN worker : WorkerSet(w)
    \/ \E m \in Msgs : TimerFire(m)
    \/ \E m \in Msgs : CallbackDelete(m)
    \/ \E m \in Msgs : CallbackLookup(m)
    \/ \E m \in Msgs : CallbackResolve(m)
    \/ \E m \in Msgs : CallbackHandle(m)
    \/ Tick

\* Spec: one message through a started broker, published on the subscribed
\* topic with or without a delay of 2 and with the default TTL or a TTL of 1,
\* against one Stop call and two CancelDelayedMessage calls.
Init ==
    /\ OneSubscription
    /\ StartedBroker(SmallConfig, {"x1"}, {1}, {"c1", "c2"})

Next ==
    \/ \E d \in {0, 2}, l \in {0, 1} : PubCall(1, "t1", d, l)
    \/ PublishSteps
    \/ CancelSteps
    \/ WorkerSteps
    \/ DelaySteps
    \/ StopSteps
    \/ DaemonSteps

Spec == Init /\ [][Next]_vars


\* ------------------------------------------------------ claims under Spec

\* Some Stop call has returned nil.
StopReturned == \E c \in DOMAIN stopper : stopper[c].pc = "done" /\ stopper[c].res = "ok"

\* The calls of CancelDelayedMessage that have returned `result`.
CancelReturned(result) ==
    {c \in DOMAIN canceller : canceller[c].pc = "done" /\ canceller[c].res = result}

\* The messages constructed with the id `id`.
WithID(id) == {m \in Msgs : msgs[m].made /\ msgs[m].ID = id}

\* Message m has a positive delay, Publish took it, and its topic has a
\* registered subscriber with a handler for it.
DelayedWithSubscriber(m) ==
    /\ msgs[m].made
    /\ msgs[m].Delay > 0
    /\ m \in DOMAIN publisher /\ publisher[m].res = "ok"
    /\ \E s \in subscribers :
          /\ s \in GetTopicSubscribers(topicSubscribers, msgs[m].Topic)
          /\ msgs[m].Topic \in subscriptions[s]

\* C3: once a Stop call has returned, no handler invocation begins: no step
\* taken after the return turns a handler task that was not running its handler
\* into one that is.
C3_NoInvocationAfterStop ==
    [][StopReturned =>
         \A m \in Msgs, s \in Subs :
             handler'[m][s] = "invoked" => handler[m][s] = "invoked"]_vars

\* C4: a Publish call that has passed the running check never faults, and when
\* it has returned it returned success or "shutting down".
C4_PublishOutcome ==
    \A p \in DOMAIN publisher :
        /\ publisher[p].pc # "panic"
        /\ (publisher[p].pc = "done" /\ publisher[p].res # "not running")
               => publisher[p].res \in {"ok", "shutting down"}

\* C8 as stated: when CancelDelayedMessage has returned false for the id of a
\* published delayed message with a matching subscriber, a handler task for that
\* message exists (its handler has been invoked or is being invoked).
C8_FalseMeansInvoked ==
    \A c \in CancelReturned("false") : \A m \in WithID(canceller[c].id) :
        DelayedWithSubscriber(m) => \E s \in Subs : handler[m][s] # "none"

\* C8, amended: when CancelDelayedMessage has returned false for the id of a
\* published delayed message with a matching subscriber, either it found no
\* entry for the id in the timer map, or the timer it found had already fired
\* or had already been stopped; it never returns false for a timer it found
\* armed.
C8_FalseMeansNotStoppedHere ==
    \A c \in CancelReturned("false") : \A m \in WithID(canceller[c].id) :
        DelayedWithSubscriber(m) =>
            \/ canceller[c].m = 0
            \/ timer[canceller[c].m].st \in {"fired", "stopped"}

\* Two cancels of one published delayed message have returned, one true and one
\* false, the false one having found the timer already stopped.
C8_Witness ==
    \E c \in CancelReturned("false"), d \in CancelReturned("true") :
        /\ canceller[c].m # 0
        /\ canceller[d].id = canceller[c].id
        /\ timer[canceller[c].m].st = "stopped"
        /\ DelayedWithSubscriber(canceller[c].m)

\* C9: a handler task of a message with a positive delay exists only at clock
\* readings at or after the message's deliver-at (creation + delay).
C9_NotBeforeDeliverAt ==
    \A m \in Msgs, s \in Subs :
        (msgs[m].made /\ msgs[m].Delay > 0 /\ handler[m][s] # "none")
            => /\ now >= msgs[m].DeliverAt
               /\ msgs[m].DeliverAt = msgs[m].CreatedAt + msgs[m].Delay

\* A delayed message's handler has been invoked.
C9_Witness ==
    \E m \in Msgs, s \in Subs :
        /\ msgs[m].Delay > 0
        /\ handler[m][s] = "invoked"
        /\ now >= msgs[m].CreatedAt + msgs[m].Delay

\* ------------------------------------------------------------- SpecLife
\* Two Start calls and two Stop calls on a new broker, in any interleaving, with
\* the goroutines Start spawns.

InitLife ==
    /\ OneSubscription
    /\ BrokerInit(SmallConfig, {"a1", "a2"}, {"x1", "x2"}, {}, {})

NextLife ==
    \/ \E c \in DOMAIN starter : StartCAS(c)
    \/ \E c \in DOMAIN starter : StartSpawn(c)
    \/ StopSteps
    \/ \E w \in DOMAIN worker : WorkerClosed(w)
    \/ \E g \in DOMAIN cleaner : CleanerExit(g)
    \/ \E g \in DOMAIN monitor : MonitorExit(g)

SpecLife == InitLife /\ [][NextLife]_vars

\* The Start calls that have returned nil, and the Stop calls likewise.
StartSucceeded == {c \in DOMAIN starter : starter[c].pc = "done" /\ starter[c].res = "ok"}
StopSucceeded == {c \in DOMAIN stopper : stopper[c].pc = "done" /\ stopper[c].res = "ok"}

\* C5: over the lifetime of a broker at most one Start call and at most one
\* Stop call return success.
C5_SingleShot ==
    /\ Cardinality(StartSucceeded) <= 1
    /\ Cardinality(StopSucceeded) <= 1

\* A Start call made while the flag is 1 returns "already running" and spawns
\* nothing.
StartWhileRunning ==
    \A c \in DOMAIN starter :
        (starter[c].pc = "idle" /\ running = 1 /\ starter'[c] # starter[c]) =>
            /\ starter'[c] = Returned(starter[c], "already running")
            /\ UNCHANGED <<worker, cleaner, monitor, running>>

\* A Stop call made while the flag is 0 returns "not running" and changes
\* nothing else.
StopWhileStopped ==
    \A c \in DOMAIN stopper :
        (stopper[c].pc = "idle" /\ running = 0 /\ stopper'[c] # stopper[c]) =>
            /\ stopper'[c] = Returned(stopper[c], "not running")
            /\ UNCHANGED <<running, ctxDone, chClosed, pendingMessages, messages,
                           deliveryTimers, timer, worker, cleaner, monitor>>

\* No Stop call has swapped the flag yet.
NeverStopped ==
    \A c \in DOMAIN stopper : stopper[c].pc = "idle" \/ stopper[c].res = "not running"

\* The Start calls that swapped the flag from 0 to 1.
StartWon == {c \in DOMAIN starter : starter[c].pc = "spawn" \/ starter[c].res = "ok"}

\* C6: a Start on a running broker fails with "already running" and spawns
\* nothing; a Stop on a broker that is not running fails with "not running" and
\* changes nothing; of the Start calls on a never-stopped broker at most one
\* wins; and the Stop call that wins on a running broker does not fault (it is
\* the one that returns success).
C6_GuardedLifecycle ==
    /\ [][StartWhileRunning /\ StopWhileStopped]_vars
    /\ [](NeverStopped => Cardinality(StartWon) <= 1)
    /\ [](\A c \in DOMAIN stopper : stopper[c].pc # "panic")

\* -------------------------------------------------------------- SpecIds
\* Two delayed messages through a started broker that keeps running, against one
\* CancelDelayedMessage call. NewMessage takes the id from the clock, so the two
\* have one id when they are constructed at the same reading.

InitIds ==
    /\ OneSubscription
    /\ StartedBroker(SmallConfig, {}, 1..MaxMsgs, {"c1"})

NextIds ==
    \/ \E p \in DOMAIN publisher : PubCall(p, "t1", 2, 0)
    \/ \E p \in DOMAIN publisher : PubStore(p)
    \/ \E p \in DOMAIN publisher : PubSend(p)
    \/ \E p \in DOMAIN publisher : PubPark(p)
    \/ \E p \in DOMAIN publisher : PubWakeSend(p)
    \/ CancelSteps
    \/ \E w \in DOMAIN worker : WorkerRecv(w)
    \/ \E w \in DOMAIN worker : WorkerArm(w)
    \/ \E w \in DOMAIN worker : WorkerSet(w)
    \/ \E m \in Msgs : TimerFire(m)
    \/ \E m \in Msgs : CallbackDelete(m)
    \/ \E m \in Msgs : CallbackLookup(m)
    \/ \E m \in Msgs : CallbackResolve(m)
    \/ \E m \in Msgs : CallbackHandle(m)
    \/ \E m \in Msgs, s \in Subs : HandlerStart(m, s)
    \/ Tick

SpecIds == InitIds /\ [][NextIds]_vars

\* C7: when CancelDelayedMessage(id) has returned true, no handler task exists
\* for a message with that id, at the return or at any time after it.
C7_CancelledNeverHandled ==
    \A c \in CancelReturned("true") : \A m \in WithID(canceller[c].id) :
        \A s \in Subs : handler[m][s] = "none"

\* ------------------------------------------------------------- SpecLive
\* One delayed message through a started broker that keeps running (no Stop
\* call), with the default TTL or a TTL of 1, against one CancelDelayedMessage
\* call, under the scheduler's fairness: a goroutine that can take a step takes
\* it, a timer whose time has come runs, the clock advances.

InitLive ==
    /\ OneSubscription
    /\ StartedBroker(SmallConfig, {}, {1}, {"c1"})

PublishRun ==
    \/ \E p \in DOMAIN publisher : PubStore(p)
    \/ \E p \in DOMAIN publisher : PubSend(p)

WorkerRun ==
    \/ \E w \in DOMAIN worker : WorkerRecv(w)
    \/ \E w \in DOMAIN worker : WorkerExpired(w)
    \/ \E w \in DOMAIN worker : WorkerArm(w)
    \/ \E w \in DOMAIN worker : WorkerSet(w)

CallbackRun ==
    \/ \E m \in Msgs : TimerFire(m)
    \/ \E m \in Msgs : CallbackDelete(m)
    \/ \E m \in Msgs : CallbackLookup(m)
    \/ \E m \in Msgs : CallbackResolve(m)
    \/ \E m \in Msgs : CallbackHandle(m)

HandlerRun == \E m \in Msgs, s \in Subs : HandlerStart(m, s)

NextLive ==
    \/ \E l \in {0, 1} : PubCall(1, "t1", 2, l)
    \/ PublishRun
    \/ CancelSteps
    \/ WorkerRun
    \/ CallbackRun
    \/ HandlerRun
    \/ \E g \in DOMAIN cleaner : CleanerSweep(g)
    \/ Tick

Fairness ==
    /\ WF_vars(PublishRun)
    /\ WF_vars(WorkerRun)
    /\ WF_vars(CallbackRun)
    /\ WF_vars(HandlerRun)
    /\ WF_vars(Tick)

SpecLive == InitLive /\ [][NextLive]_vars /\ Fairness

\* A CancelDelayedMessage call stopped the timer it found under message m's id.
Cancelled(m) ==
    \E c \in DOMAIN canceller :
        canceller[c].id = msgs[m].ID /\ canceller[c].pc \in {"delete", "done"}
                                     /\ canceller[c].stopped

\* C10: a delayed message that Publish took on a running broker, whose topic
\* has a registered subscriber with a handler, leads to a handler invocation at
\* or after its deliver-at, unless it is cancelled or expires.
C10_DelayedEventuallyHandled ==
    \A m \in Msgs :
        DelayedWithSubscriber(m) ~>
            \/ \E s \in Subs : handler[m][s] = "invoked" /\ now >= msgs[m].DeliverAt
            \/ Cancelled(m)
            \/ IsExpired(msgs[m], now)

\* A delayed message that was neither cancelled nor expired has had its handler
\* invoked.
C10_Witness ==
    \E m \in Msgs :
        /\ DelayedWithSubscriber(m)
        /\ ~Cancelled(m)
        /\ ~IsExpired(msgs[m], now)
        /\ handler[m]["s1"] = "invoked"
        /\ now >= msgs[m].DeliverAt

\* -------------------------------------------------------------- SpecPub
\* MaxMsgs Publish calls of non-delayed messages against one Stop call, on a
\* started broker whose backlog holds one message: a Publish call finds the
\* backlog full and blocks in its select.

InitPub ==
    /\ OneSubscription
    /\ StartedBroker(SmallConfig, {"x1"}, 1..MaxMsgs, {})

NextPub ==
    \/ \E p \in DOMAIN publisher : PubCall(p, "t1", 0, 0)
    \/ PublishSteps
    \/ ParkSteps
    \/ WorkerSteps
    \/ StopSteps
    \/ DaemonSteps
    \/ Tick

SpecPub == InitPub /\ [][NextPub]_vars

\* ------------------------------------------------------------ SpecRegLog
\* The registry under sequential calls, the caller keeping a note of its last
\* call: the operation, its arguments, and whether the registry held the pair
\* (for RemoveSubscriber: any pair of the subscriber) when the call was made.

LoggedCall(op, s, t, had) == [last |-> [op |-> op, s |-> s, t |-> t, had |-> had]]

LogAddSubscription(s, t) ==
    LET reg == AddSubscriptionOp(Registry(topicSubscribers, subscriberTopics), s, t)
    IN /\ topicSubscribers' = reg.ts
       /\ subscriberTopics' = reg.st
       /\ rcall' = LoggedCall("add", s, t, s \in GetTopicSubscribers(topicSubscribers, t))
       /\ UNCHANGED brokerVars

LogRemoveSubscription(s, t) ==
    LET reg == RemoveSubscriptionOp(Registry(topicSubscribers, subscriberTopics), s, t)
    IN /\ topicSubscribers' = reg.ts
       /\ subscriberTopics' = reg.st
       /\ rcall' = LoggedCall("remove", s, t, s \in GetTopicSubscribers(topicSubscribers, t))
       /\ UNCHANGED brokerVars

LogRemoveSubscriber(s) ==
    LET reg == RemoveSubscriberOp(Registry(topicSubscribers, subscriberTopics), s)
    IN /\ topicSubscribers' = reg.ts
       /\ subscriberTopics' = reg.st
       /\ rcall' = LoggedCall("remove_subscriber", s, "",
                              GetSubscriberTopics(subscriberTopics, s) # {})
       /\ UNCHANGED brokerVars

InitRegLog ==
    /\ RegistryInit
    /\ rcall = LoggedCall("none", "", "", FALSE)
    /\ BrokerInit(SmallConfig, {}, {}, {}, {})
    /\ NoSubscribers

NextRegLog ==
    \/ \E s \in Subs, t \in Topics : LogAddSubscription(s, t)
    \/ \E s \in Subs, t \in Topics : LogRemoveSubscription(s, t)
    \/ \E s \in Subs : LogRemoveSubscriber(s)

SpecRegLog == InitRegLog /\ [][NextRegLog]_vars

\* C18: after any sequence of registry calls no outer key maps to an empty set:
\* GetAllTopics lists exactly the topics that have a subscriber and
\* GetAllSubscribers exactly the subscribers that have a topic, and the two
\* counts count these.
C18_NoEmptyEntry ==
    /\ GetAllTopics(topicSubscribers)
          = {t \in Topics : GetTopicSubscribers(topicSubscribers, t) # {}}
    /\ GetAllSubscribers(subscriberTopics)
          = {s \in Subs : GetSubscriberTopics(subscriberTopics, s) # {}}
    /\ \A t \in GetAllTopics(topicSubscribers) : topicSubscribers[t] # {}
    /\ \A s \in GetAllSubscribers(subscriberTopics) : subscriberTopics[s] # {}
    /\ GetAllTopicsCount(topicSubscribers)
          = Cardinality({t \in Topics : GetTopicSubscribers(topicSubscribers, t) # {}})
    /\ GetAllSubscribersCount(subscriberTopics)
          = Cardinality({s \in Subs : GetSubscriberTopics(subscriberTopics, s) # {}})

\* The last call removed a pair the registry held, the topic's last subscriber
\* and the subscriber's last topic, while another pair stays.
C18_Witness ==
    /\ rcall.last.op = "remove" /\ rcall.last.had
    /\ rcall.last.t \notin GetAllTopics(topicSubscribers)
    /\ rcall.last.s \notin GetAllSubscribers(subscriberTopics)
    /\ GetAllTopicsCount(topicSubscribers) = 1
    /\ GetAllSubscribersCount(subscriberTopics) = 1

\* ------------------------------------------------------------- SpecTopic
\* Subscriber.Subscribe of one topic, over strings: a string is a sequence of
\* characters, a topic any string of at most MaxTopicLen characters.

Chars == {"p", "2", "/", "a"}
TopicStrings == UNION {[1..n -> Chars] : n \in 0..MaxTopicLen}
IdStrings == {<<>>, <<"a">>, <<"p">>, <<"a", "a">>, <<"a", "/">>}

TopicP2PPrefix == <<"p", "2", "p", "/">>

\* strings.HasPrefix
HasPrefix(str, prefix) ==
    Len(str) >= Len(prefix) /\ SubSeq(str, 1, Len(prefix)) = prefix

\* strings.Split(str, "/"): the pieces between the separators, in order; a
\* string without separator is its only piece.
RECURSIVE Split(_, _)
Split(str, sep) ==
    IF \A i \in 1..Len(str) : str[i] # sep THEN <<str>>
    ELSE LET i == CHOOSE k \in 1..Len(str) :
                      str[k] = sep /\ \A j \in 1..(k - 1) : str[j] # sep
         IN <<SubSeq(str, 1, i - 1)>> \o Split(SubSeq(str, i + 1, Len(str)), sep)

\* Topic.IsP2P
IsP2P(topic) == HasPrefix(topic, TopicP2PPrefix)

\* A validation that accepts every topic.
TopicValidateNone(id, topic) == "nil"

\* Subscriber.TopicValidate on the subscriber with id `id`: the error, or "nil".
TopicValidate(id, topic) ==
    LET topicParts == Split(topic, "/")
    IN IF IsP2P(topic) /\ topicParts[2] # id
       THEN "p2p topic id does not match"
       ELSE "nil"

\* Subscriber.Subscribe({topic: handler}) on the subscriber with id `id`: the
\* topic is validated and, when valid, entered in the handler table.
SubscribeOne ==
    /\ rcall.pc = "call"
    /\ LET err == TopicValidate(rcall.id, rcall.topic)
       IN /\ rcall' = [rcall EXCEPT !.pc = "done", !.res = err]
          /\ subscriptions' = IF err = "nil"
                              THEN [subscriptions EXCEPT ![rcall.id] = @ \cup {rcall.topic}]
                              ELSE subscriptions
    /\ UNCHANGED <<topicSubscribers, subscriberTopics, config, running, ctxDone,
                    chClosed, pendingMessages, messages, deliveryTimers,
                    subscribers, msgs, timer, worker, callback, handler,
                    cleaner, monitor, starter, stopper, publisher, canceller,
                    now, expiredDrop>>

InitTopic ==
    /\ RegistryInit
    /\ BrokerInit(SmallConfig, {}, {}, {}, {})
    /\ subscribers = {}
    /\ subscriptions = [id \in IdStrings |-> {}]
    /\ rcall \in {[pc |-> "call", id |-> id, topic |-> topic, res |-> "none"] :
                    id \in IdStrings, topic \in TopicStrings}

NextTopic == SubscribeOne

SpecTopic == InitTopic /\ [][NextTopic]_vars

\* The segment after "p2p/" of a topic that starts with "p2p/": the characters
\* from the fifth up to the next "/" or the end.
SegmentAfterP2P(topic) ==
    LET rest == SubSeq(topic, 5, Len(topic))
        stops == {k \in 1..Len(rest) : rest[k] = "/"}
        end == IF stops = {} THEN Len(rest)
               ELSE (CHOOSE k \in stops : \A j \in stops : k <= j) - 1
    IN SubSeq(rest, 1, end)

\* C20: Subscribe of a point-to-point topic p2p/B by subscriber A fails when the
\* segment B differs from A's id and succeeds when it equals it; a topic that
\* does not start with "p2p/" is always accepted. The table gets the topic
\* exactly when the call succeeds.
C20_P2POwnTopicOnly ==
    rcall.pc = "done" =>
        /\ rcall.res = "nil" <=>
              (HasPrefix(rcall.topic, TopicP2PPrefix)
                  => SegmentAfterP2P(rcall.topic) = rcall.id)
        /\ rcall.topic \in subscriptions[rcall.id] <=> rcall.res = "nil"

\* Subscriber "a" was refused p2p/p.
C20_Witness ==
    /\ rcall.pc = "done"
    /\ rcall.id = <<"a">>
    /\ rcall.topic = <<"p", "2", "p", "/", "p">>
    /\ rcall.res = "p2p topic id does not match"

\* --------------------------------------------------------------- SpecApi
\* The broker's subscriber calls (RegisterSubscriber, UnregisterSubscriber,
\* Subscribe, Unsubscribe), one step per SafeMap critical section. Every caller
\* makes one call; Subscribe and Unsubscribe name one topic. The callers make an
\* UnregisterSubscriber call only while no other call is in flight and make no
\* call while it runs, so its walk of the inner map is never raced.

ApiCallers == {"a1", "a2", "a3", "a4"}
ApiSubs == {"s1", "s2"}
ApiTopics == {"t1", "t2"}

ApiIdle == [pc |-> "idle", op |-> "", s |-> "", t |-> "", todo |-> {}, res |-> "none"]

ApiInFlight(c) == rcall[c].pc \notin {"idle", "done"}
ApiReturn(call, res) == [call EXCEPT !.pc = "done", !.res = res]

\* No UnregisterSubscriber call is in flight.
NoUnregister == \A q \in ApiCallers : ApiInFlight(q) => rcall[q].op # "unregister"

\* RegisterSubscriber: b.subscribers.Get; a registered id is rejected.
RegGet(c, s) ==
    /\ rcall[c].pc = "idle"
    /\ NoUnregister
    /\ LET call == [ApiIdle EXCEPT !.op = "register", !.s = s]
       IN rcall' = [rcall EXCEPT ![c] =
            IF s \in subscribers THEN ApiReturn(call, "already exists")
            ELSE [call EXCEPT !.pc = "regSet"]]
    /\ UNCHANGED <<topicSubscribers, subscriberTopics, config, running, ctxDone,
                    chClosed, pendingMessages, messages, deliveryTimers,
                    subscribers, subscriptions, msgs, timer, worker, callback,
                    handler, cleaner, monitor, starter, stopper, publisher,
                    canceller, now, expiredDrop>>

\* RegisterSubscriber: b.subscribers.Set puts the caller's Subscriber (a new
\* one, its handler table empty) under the id, and the call returns nil.
RegSet(c) ==
    /\ rcall[c].pc = "regSet"
    /\ subscribers' = subscribers \cup {rcall[c].s}
    /\ subscriptions' = [subscriptions EXCEPT ![rcall[c].s] = {}]
    /\ rcall' = [rcall EXCEPT ![c] = ApiReturn(@, "ok")]
    /\ UNCHANGED <<topicSubscribers, subscriberTopics, config, running, ctxDone,
                    chClosed, pendingMessages, messages, deliveryTimers, msgs,
                    timer, worker, callback, handler, cleaner, monitor, starter,
                    stopper, publisher, canceller, now, expiredDrop>>

\* UnregisterSubscriber: b.subscribers.Get, and for a registered id the Get and
\* walk of RemoveSubscriber's GetSubscriberTopics.
UnregGet(c, s) ==
    /\ rcall[c].pc = "idle"
    /\ \A q \in ApiCallers : ~ApiInFlight(q)
    /\ LET call == [ApiIdle EXCEPT !.op = "unregister", !.s = s]
           topics == GetSubscriberTopics(subscriberTopics, s)
       IN rcall' = [rcall EXCEPT ![c] =
            IF s \notin subscribers THEN ApiReturn(call, "not found")
            ELSE [call EXCEPT !.pc = IF topics = {} THEN "unregDelete" ELSE "unregLoop",
                              !.todo = topics]]
    /\ UNCHANGED <<topicSubscribers, subscriberTopics, config, running, ctxDone,
                    chClosed, pendingMessages, messages, deliveryTimers,
                    subscribers, subscriptions, msgs, timer, worker, callback,
                    handler, cleaner, monitor, starter, stopper, publisher,
                    canceller, now, expiredDrop>>

\* UnregisterSubscriber: RemoveSubscriber's RemoveSubscription of the next topic.
UnregRemove(c) ==
    /\ rcall[c].pc = "unregLoop"
    /\ \E t \in rcall[c].todo :
          LET reg == RemoveSubscriptionOp(Registry(topicSubscribers, subscriberTopics),
                                          rcall[c].s, t)
              left == rcall[c].todo \ {t}
          IN /\ topicSubscribers' = reg.ts
             /\ subscriberTopics' = reg.st
             /\ rcall' = [rcall EXCEPT ![c] =
                    [@ EXCEPT !.pc = IF left = {} THEN "unregDelete" ELSE "unregLoop",
                              !.todo = left]]
    /\ UNCHANGED <<config, running, ctxDone, chClosed, pendingMessages, messages,
                    deliveryTimers, subscribers, subscriptions, msgs, timer,
                    worker, callback, handler, cleaner, monitor, starter,
                    stopper, publisher, canceller, now, expiredDrop>>

\* UnregisterSubscriber: b.subscribers.Delete, and return.
UnregDelete(c) ==
    /\ rcall[c].pc = "unregDelete"
    /\ subscribers' = subscribers \ {rcall[c].s}
    /\ rcall' = [rcall EXCEPT ![c] = ApiReturn(@, "ok")]
    /\ UNCHANGED <<topicSubscribers, subscriberTopics, config, running, ctxDone,
                    chClosed, pendingMessages, messages, deliveryTimers,
                    subscriptions, msgs, timer, worker, callback, handler,
                    cleaner, monitor, starter, stopper, publisher, canceller,
                    now, expiredDrop>>

\* A Subscribe that does not look the subscriber up.
SubGetUnchecked(c, s, t) ==
    /\ rcall[c].pc = "idle"
    /\ NoUnregister
    /\ rcall' = [rcall EXCEPT ![c] =
            [ApiIdle EXCEPT !.op = "subscribe", !.s = s, !.t = t, !.pc = "subAdd1"]]
    /\ UNCHANGED <<topicSubscribers, subscriberTopics, config, running, ctxDone,
                    chClosed, pendingMessages, messages, deliveryTimers,
                    subscribers, subscriptions, msgs, timer, worker, callback,
                    handler, cleaner, monitor, starter, stopper, publisher,
                    canceller, now, expiredDrop>>

\* Subscribe: b.subscribers.Get; an unregistered id is an error.
SubGet(c, s, t) ==
    /\ rcall[c].pc = "idle"
    /\ NoUnregister
    /\ LET call == [ApiIdle EXCEPT !.op = "subscribe", !.s = s, !.t = t]
       IN rcall' = [rcall EXCEPT ![c] =
            IF s \notin subscribers THEN ApiReturn(call, "not found")
            ELSE [call EXCEPT !.pc = "subAdd1"]]
    /\ UNCHANGED <<topicSubscribers, subscriberTopics, config, running, ctxDone,
                    chClosed, pendingMessages, messages, deliveryTimers,
                    subscribers, subscriptions, msgs, timer, worker, callback,
                    handler, cleaner, monitor, starter, stopper, publisher,
                    canceller, now, expiredDrop>>

\* Subscribe: AddSubscription, first Update (topicSubscribers).
SubAdd1(c) ==
    /\ rcall[c].pc = "subAdd1"
    /\ topicSubscribers' = AddTopicSide(topicSubscribers, rcall[c].s, rcall[c].t)
    /\ rcall' = [rcall EXCEPT ![c].pc = "subAdd2"]
    /\ UNCHANGED <<subscriberTopics, config, running, ctxDone, chClosed,
                    pendingMessages, messages, deliveryTimers, subscribers,
                    subscriptions, msgs, timer, worker, callback, handler,
                    cleaner, monitor, starter, stopper, publisher, canceller,
                    now, expiredDrop>>

\* Subscribe: AddSubscription, second Update (subscriberTopics).
SubAdd2(c) ==
    /\ rcall[c].pc = "subAdd2"
    /\ subscriberTopics' = AddSubscriberSide(subscriberTopics, rcall[c].s, rcall[c].t)
    /\ rcall' = [rcall EXCEPT ![c].pc = "subTable"]
    /\ UNCHANGED <<topicSubscribers, config, running, ctxDone, chClosed,
                    pendingMessages, messages, deliveryTimers, subscribers,
                    subscriptions, msgs, timer, worker, callback, handler,
                    cleaner, monitor, starter, stopper, publisher, canceller,
                    now, expiredDrop>>

\* Subscribe: subscriber.Subscribe(topicMap) enters the topic (none of ApiTopics
\* is point-to-point) in the handler table, and the call returns nil.
SubTable(c) ==
    /\ rcall[c].pc = "subTable"
    /\ subscriptions' = [subscriptions EXCEPT ![rcall[c].s] = @ \cup {rcall[c].t}]
    /\ rcall' = [rcall EXCEPT ![c] = ApiReturn(@, "ok")]
    /\ UNCHANGED <<topicSubscribers, subscriberTopics, config, running, ctxDone,
                    chClosed, pendingMessages, messages, deliveryTimers,
                    subscribers, msgs, timer, worker, callback, handler,
                    cleaner, monitor, starter, stopper, publisher, canceller,
                    now, expiredDrop>>

\* An Unsubscribe that returns at once and removes nothing.
UnsubGetNoop(c, s, t) ==
    /\ rcall[c].pc = "idle"
    /\ rcall' = [rcall EXCEPT ![c] =
            ApiReturn([ApiIdle EXCEPT !.op = "unsubscribe", !.s = s, !.t = t], "ok")]
    /\ UNCHANGED <<topicSubscribers, subscriberTopics, config, running, ctxDone,
                    chClosed, pendingMessages, messages, deliveryTimers,
                    subscribers, subscriptions, msgs, timer, worker, callback,
                    handler, cleaner, monitor, starter, stopper, publisher,
                    canceller, now, expiredDrop>>

\* Unsubscribe (of one topic): b.subscribers.Get; an unregistered id returns.
UnsubGet(c, s, t) ==
    /\ rcall[c].pc = "idle"
    /\ NoUnregister
    /\ LET call == [ApiIdle EXCEPT !.op = "unsubscribe", !.s = s, !.t = t]
       IN rcall' = [rcall EXCEPT ![c] =
            IF s \notin subscribers THEN ApiReturn(call, "not found")
            ELSE [call EXCEPT !.pc = "unsubRem1"]]
    /\ UNCHANGED <<topicSubscribers, subscriberTopics, config, running, ctxDone,
                    chClosed, pendingMessages, messages, deliveryTimers,
                    subscribers, subscriptions, msgs, timer, worker, callback,
                    handler, cleaner, monitor, starter, stopper, publisher,
                    canceller, now, expiredDrop>>

\* Unsubscribe: RemoveSubscription, first Update (topicSubscribers).
UnsubRem1(c) ==
    /\ rcall[c].pc = "unsubRem1"
    /\ topicSubscribers' = RemoveTopicSide(topicSubscribers, rcall[c].s, rcall[c].t)
    /\ rcall' = [rcall EXCEPT ![c].pc = "unsubRem2"]
    /\ UNCHANGED <<subscriberTopics, config, running, ctxDone, chClosed,
                    pendingMessages, messages, deliveryTimers, subscribers,
                    subscriptions, msgs, timer, worker, callback, handler,
                    cleaner, monitor, starter, stopper, publisher, canceller,
                    now, expiredDrop>>

\* Unsubscribe: RemoveSubscription, second Update (subscriberTopics).
UnsubRem2(c) ==
    /\ rcall[c].pc = "unsubRem2"
    /\ subscriberTopics' = RemoveSubscriberSide(subscriberTopics, rcall[c].s, rcall[c].t)
    /\ rcall' = [rcall EXCEPT ![c].pc = "unsubTable"]
    /\ UNCHANGED <<topicSubscribers, config, running, ctxDone, chClosed,
                    pendingMessages, messages, deliveryTimers, subscribers,
                    subscriptions, msgs, timer, worker, callback, handler,
                    cleaner, monitor, starter, stopper, publisher, canceller,
                    now, expiredDrop>>

\* Unsubscribe: subscriber.Unsubscribe(topics) deletes the topic from the
\* handler table, and the call returns.
UnsubTable(c) ==
    /\ rcall[c].pc = "unsubTable"
    /\ subscriptions' = [subscriptions EXCEPT ![rcall[c].s] = @ \ {rcall[c].t}]
    /\ rcall' = [rcall EXCEPT ![c] = ApiReturn(@, "ok")]
    /\ UNCHANGED <<topicSubscribers, subscriberTopics, config, running, ctxDone,
                    chClosed, pendingMessages, messages, deliveryTimers,
                    subscribers, msgs, timer, worker, callback, handler,
                    cleaner, monitor, starter, stopper, publisher, canceller,
                    now, expiredDrop>>

InitApi ==
    /\ RegistryInit
    /\ rcall = [c \in ApiCallers |-> ApiIdle]
    /\ BrokerInit(SmallConfig, {}, {}, {}, {})
    /\ NoSubscribers

NextApi ==
    \E c \in ApiCallers :
        \/ \E s \in ApiSubs : RegGet(c, s)
        \/ RegSet(c)
        \/ \E s \in ApiSubs : UnregGet(c, s)
        \/ UnregRemove(c)
        \/ UnregDelete(c)
        \/ \E s \in ApiSubs, t \in ApiTopics : SubGet(c, s, t)
        \/ SubAdd1(c)
        \/ SubAdd2(c)
        \/ SubTable(c)
        \/ \E s \in ApiSubs, t \in ApiTopics : UnsubGet(c, s, t)
        \/ UnsubRem1(c)
        \/ UnsubRem2(c)
        \/ UnsubTable(c)

SpecApi == InitApi /\ [][NextApi]_vars

\* The registry holds a pair (s, t) in either index.
HasPair(ts, st, s) ==
    \/ \E t \in DOMAIN ts : s \in ts[t]
    \/ s \in DOMAIN st

\* C16: among RegisterSubscriber calls, in any interleaving, two calls with the
\* same id never both return success unless an UnregisterSubscriber of that id
\* succeeded.
C16_OneRegistrationPerId ==
    \A c \in ApiCallers, d \in ApiCallers :
        (/\ c # d
         /\ rcall[c].op = "register" /\ rcall[c].res = "ok"
         /\ rcall[d].op = "register" /\ rcall[d].res = "ok"
         /\ rcall[c].s = rcall[d].s)
        => \E u \in ApiCallers :
              /\ rcall[u].op = "unregister"
              /\ rcall[u].s = rcall[c].s
              /\ rcall[u].res = "ok"

\* C17: when an UnregisterSubscriber(id) that ran with no other call in flight
\* returns, the registry holds no (id, topic) pair and the id is not in the
\* subscriber map; on an id that is not registered it changes nothing.
C17_UnregisterPurges ==
    [][\A c \in ApiCallers :
          /\ (rcall[c].pc = "unregDelete" /\ rcall'[c].pc = "done")
                => /\ ~HasPair(topicSubscribers', subscriberTopics', rcall[c].s)
                   /\ rcall[c].s \notin subscribers'
          /\ (rcall[c].pc = "idle" /\ rcall'[c].op = "unregister"
                /\ rcall'[c].s \notin subscribers)
                => /\ rcall'[c].pc = "done"
                   /\ UNCHANGED <<regVars, subVars>>]_vars

\* C19: a Subscribe or an Unsubscribe for an id that is not registered returns
\* at its lookup ("not found" for Subscribe) and changes neither the registry
\* nor a handler table.
C19_UnregisteredIdNoChange ==
    [][\A c \in ApiCallers :
          (/\ rcall[c].pc = "idle"
           /\ rcall'[c].op \in {"subscribe", "unsubscribe"}
           /\ rcall'[c].s \notin subscribers)
          => /\ rcall'[c].pc = "done"
             /\ rcall'[c].res = "not found"
             /\ UNCHANGED <<regVars, subVars>>]_vars

\* A Subscribe and an Unsubscribe for unregistered ids have returned while the
\* registry and a handler table hold another subscriber's topic.
C19_Witness ==
    /\ \E c \in ApiCallers :
          rcall[c].op = "subscribe" /\ rcall[c].res = "not found"
    /\ \E c \in ApiCallers :
          rcall[c].op = "unsubscribe" /\ rcall[c].res = "not found"
    /\ \E s \in ApiSubs :
          /\ subscriptions[s] # {}
          /\ s \in DOMAIN subscriberTopics

\* --------------------------------------------------------------- SpecOff
\* Two Publish calls of non-delayed messages on a new broker, against one Start
\* call and one Stop call: a Publish call finds the broker never started,
\* running, or stopped.

InitOff ==
    /\ OneSubscription
    /\ BrokerInit(SmallConfig, {"a1"}, {"x1"}, {1, 2}, {})

NextOff ==
    \/ \E c \in DOMAIN starter : StartCAS(c)
    \/ \E c \in DOMAIN starter : StartSpawn(c)
    \/ \E p \in DOMAIN publisher : PubCall(p, "t1", 0, 0)
    \/ PublishSteps
    \/ WorkerSteps
    \/ StopSteps
    \/ DaemonSteps
    \/ Tick

SpecOff == InitOff /\ [][NextOff]_vars

\* The messages in the backlog.
Backlog == {pendingMessages[i] : i \in 1..Len(pendingMessages)}

\* C14: a Publish call that finds the running flag 0 returns the "not running"
\* error in that step and leaves the store and the backlog as they were; the
\* message of a call that returned "not running" is in neither.
C14_NotRunningNoEffect ==
    [][\A p \in DOMAIN publisher :
          /\ (publisher[p].pc = "idle" /\ publisher'[p].pc # "idle" /\ running = 0)
                => /\ publisher'[p] = Returned(publisher[p], "not running")
                   /\ UNCHANGED <<messages, pendingMessages>>
          /\ publisher'[p].res = "not running"
                => /\ \A id \in DOMAIN messages' : messages'[id] # p
                   /\ p \notin Backlog']_vars

\* A Publish call returned "not running" on the stopped broker while the store
\* holds the message of an earlier, successful call.
C14_Witness ==
    \E p \in DOMAIN publisher, q \in DOMAIN publisher :
        /\ publisher[p].res = "not running"
        /\ publisher[q].res = "ok"
        /\ \E id \in DOMAIN messages : messages[id] = q
        /\ \E c \in DOMAIN stopper : stopper[c].pc = "done" /\ stopper[c].res = "ok"

\* --------------------------------------------------------- SpecLifeFair
\* SpecLife under the scheduler's fairness: a call that can take its next step
\* takes it, and a goroutine that can exit exits.

FairnessLife ==
    /\ WF_vars(\E c \in DOMAIN starter : StartCAS(c) \/ StartSpawn(c))
    /\ WF_vars(StopSteps)
    /\ WF_vars(\E w \in DOMAIN worker : WorkerClosed(w))
    /\ WF_vars(\E g \in DOMAIN cleaner : CleanerExit(g))
    /\ WF_vars(\E g \in DOMAIN monitor : MonitorExit(g))

SpecLifeFair == SpecLife /\ FairnessLife

\* Every goroutine Start spawned has exited.
AllExited ==
    /\ \A w \in DOMAIN worker : worker[w].pc = "exited"
    /\ \A g \in DOMAIN cleaner : cleaner[g] = "exited"
    /\ \A g \in DOMAIN monitor : monitor[g] = "exited"

\* C15: a Stop call that found the broker running (it swapped the flag)
\* eventually returns nil, and in the step it returns every dispatcher worker,
\* the cleaner and the monitor have exited.
C15_StopReturns ==
    /\ \A c \in {"x1", "x2"} : (stopper[c].pc = "cancel") ~> (stopper[c].res = "ok")
    /\ [][\A c \in DOMAIN stopper :
            (stopper[c].pc = "wait" /\ stopper'[c].pc = "done") => AllExited']_vars

\* --------------------------------------------------------------- SpecFan
\* One message through a started broker that keeps running, published on t1
\* (subscribers s1 and s2) or on t2 (no subscriber), with or without a delay of
\* 2 and with the default TTL or a TTL of 1, against one CancelDelayedMessage
\* call, under the scheduler's fairness. s3 is registered and subscribes to
\* nothing; no registry call is made after the Publish.

TwoSubscriptions ==
    /\ topicSubscribers = AddTopicSide(AddTopicSide(EmptyMap, "s1", "t1"), "s2", "t1")
    /\ subscriberTopics = AddSubscriberSide(AddSubscriberSide(EmptyMap, "s1", "t1"), "s2", "t1")
    /\ rcall = NoCalls
    /\ subscribers = {"s1", "s2", "s3"}
    /\ subscriptions = [s \in Subs |-> IF s \in {"s1", "s2"} THEN {"t1"} ELSE {}]

InitFan ==
    /\ TwoSubscriptions
    /\ StartedBroker(SmallConfig, {}, {1}, {"c1"})

DispatchRun ==
    \/ \E w \in DOMAIN worker : WorkerLookup(w)
    \/ \E w \in DOMAIN worker : WorkerResolve(w)
    \/ \E w \in DOMAIN worker : WorkerHandle(w)

NextFan ==
    \/ \E topic \in {"t1", "t2"}, d \in {0, 2}, l \in {0, 1} : PubCall(1, topic, d, l)
    \/ PublishRun
    \/ CancelSteps
    \/ WorkerRun
    \/ DispatchRun
    \/ CallbackRun
    \/ HandlerRun
    \/ \E g \in DOMAIN cleaner : CleanerSweep(g)
    \/ Tick

FairnessFan == Fairness /\ WF_vars(DispatchRun)

SpecFan == InitFan /\ [][NextFan]_vars /\ FairnessFan

\* Publish took message m, on topic t.
PublishedOn(m, t) == publisher[m].res = "ok" /\ msgs[m].Topic = t

Dispatched(m) ==
    /\ publisher[m].res = "ok"
    /\ m \notin Backlog
    /\ \A w \in DOMAIN worker : worker[w].m # m
    /\ msgs[m].Delay > 0 => callback[m].pc = "done"

\* C12: once a message published on a topic without subscriber in the registry
\* has been dispatched, the store does not hold its id (GetMessage: not found)
\* and no handler has been called for it.
C12_NoSubscriberDropped ==
    \A m \in {1} :
        (Dispatched(m) /\ GetTopicSubscribers(topicSubscribers, msgs[m].Topic) = {})
            => /\ ~SafeMapGet(messages, msgs[m].ID).ok
               /\ \A s \in Subs : handler[m][s] = "none"

\* A message with the default TTL, published on t2, has been dispatched before
\* it could expire.
C12_Witness ==
    /\ Dispatched(1)
    /\ msgs[1].Topic = "t2"
    /\ msgs[1].TTL = defaultMessageTTL
    /\ ~IsExpired(msgs[1], now)
    /\ 1 \notin expiredDrop

\* ------------------------------------------------------------- SpecSweep
\* One message through a started broker that keeps running, with the clock and
\* the cleaner's ticker in step: the ticker fires every CleanupInterval, and the
\* cleaner sweeps before the clock moves on. The caller constructs the message
\* (NewMessage, SetDelay, SetTTL with a TTL of 1) and calls Publish at that or
\* at a later clock reading.

SweepConfig == [MaxConcurrency |-> 1, QueueSize |-> 1, CleanupInterval |-> 1]

\* NewMessage, SetDelay and SetTTL by the caller of Publish call p.
Construct(p, topic, delay, ttl) ==
    /\ publisher[p].pc = "idle"
    /\ now + delay <= MaxSweepTime
    /\ msgs' = [msgs EXCEPT ![p] = MakeMessage(topic, delay, ttl, now)]
    /\ publisher' = [publisher EXCEPT ![p].pc = "made"]
    /\ UNCHANGED <<topicSubscribers, subscriberTopics, rcall, config, running,
                    ctxDone, chClosed, pendingMessages, messages,
                    deliveryTimers, subscribers, subscriptions, timer, worker,
                    callback, handler, cleaner, monitor, starter, stopper,
                    canceller, now, expiredDrop>>

\* Publish of the constructed message: atomic.LoadInt32 of the running flag.
PubMade(p) ==
    /\ publisher[p].pc = "made"
    /\ publisher' = [publisher EXCEPT ![p] =
            IF running = 0 THEN Returned(@, "not running")
            ELSE [@ EXCEPT !.pc = "store"]]
    /\ UNCHANGED <<topicSubscribers, subscriberTopics, rcall, config, running,
                    ctxDone, chClosed, pendingMessages, messages,
                    deliveryTimers, subscribers, subscriptions, msgs, timer,
                    worker, callback, handler, cleaner, monitor, starter,
                    stopper, canceller, now, expiredDrop>>

\* The clock advances, once the cleaner has served its ticker; the ticker fires
\* at every multiple of CleanupInterval after Start.
TimedTick ==
    /\ now < MaxSweepTime
    /\ \A g \in DOMAIN cleaner : cleaner[g] # "due"
    /\ now' = now + 1
    /\ cleaner' = [g \in DOMAIN cleaner |->
            IF cleaner[g] = "run" /\ (now + 1) % config.CleanupInterval = 0
            THEN "due" ELSE cleaner[g]]
    /\ UNCHANGED <<topicSubscribers, subscriberTopics, rcall, config, running,
                    ctxDone, chClosed, pendingMessages, messages,
                    deliveryTimers, subscribers, subscriptions, msgs, timer,
                    worker, callback, handler, monitor, starter, stopper,
                    publisher, canceller, expiredDrop>>

\* cleaner: <-ticker.C; cleanupExpiredMessages deletes the expired messages from
\* the store.
TimedSweep(g) ==
    /\ cleaner[g] = "due"
    /\ messages' = cleanupExpiredMessages(messages, now)
    /\ cleaner' = [cleaner EXCEPT ![g] = "run"]
    /\ UNCHANGED <<topicSubscribers, subscriberTopics, rcall, config, running,
                    ctxDone, chClosed, pendingMessages, deliveryTimers,
                    subscribers, subscriptions, msgs, timer, worker, callback,
                    handler, monitor, starter, stopper, publisher, canceller,
                    now, expiredDrop>>

InitSweep ==
    /\ OneSubscription
    /\ StartedBroker(SweepConfig, {}, {1}, {"c1"})

NextSweep ==
    \/ \E d \in {0, 2} : Construct(1, "t1", d, 1)
    \/ \E p \in DOMAIN publisher : PubMade(p)
    \/ PublishRun
    \/ CancelSteps
    \/ WorkerRun
    \/ DispatchRun
    \/ CallbackRun
    \/ HandlerRun
    \/ \E g \in DOMAIN cleaner : TimedSweep(g)
    \/ TimedTick

SpecSweep == InitSweep /\ [][NextSweep]_vars

\* The store holds message m.
Stored(m) == \E id \in DOMAIN messages : messages[id] = m

\* C13: at every time later than its creation time + TTL + cleanup interval a
\* message is absent from the store.
C13_GoneAfterTTL ==
    \A m \in {1} :
        (msgs[m].made
            /\ now > msgs[m].CreatedAt + msgs[m].TTL + config.CleanupInterval)
        => ~Stored(m)

\* ----------------------------------------------- further claims, SpecIds

\* C22: two messages constructed by NewMessage have distinct ids, also when
\* both are constructed at one clock reading, so two published messages never
\* have the same key of the store.
C22_DistinctIds ==
    \A m \in Msgs, n \in Msgs :
        (m # n /\ msgs[m].made /\ msgs[n].made) => msgs[m].ID # msgs[n].ID

\* ------------------------------------------- further claims, SpecRegConc

\* C23: no reader walks an inner set while an AddSubscription or a
\* RemoveSubscription writes that set: the walk of GetSubscriberTopics always
\* finds the map as its Get left it.
C23_ReadersSeeSnapshot ==
    \A p \in RegCallers : rcall[p].pc = "rs_iter" => ~rcall[p].dirty

\* -------------------------------------------------- further claims, Spec

C28_NoTimerAfterStop ==
    StopReturned =>
        /\ SafeMapLength(deliveryTimers) = 0
        /\ \A m \in Msgs : timer[m].st # "armed"

\* ----------------------------------------------- further claims, SpecFan

\* No worker, timer function or CancelDelayedMessage call is in mid-step.
DispatchQuiet ==
    /\ \A w \in DOMAIN worker : worker[w].pc = "recv"
    /\ \A m \in Msgs : callback[m].pc \in {"none", "done"}
    /\ \A c \in DOMAIN canceller : canceller[c].pc \in {"idle", "done"}

\* C25: with no dispatch step in progress, the timer map holds an entry only for
\* a message with positive delay whose timer is armed (neither fired nor
\* stopped).
C25_TimerMapLive ==
    DispatchQuiet =>
        \A id \in SafeMapKeys(deliveryTimers) :
            LET m == deliveryTimers[id]
            IN msgs[m].Delay > 0 /\ timer[m].st = "armed"

\* C26: for a message whose topic has no subscriber in the registry no delivery
\* timer is armed, whatever its delay.
C26_NoTimerWithoutSubscriber ==
    \A m \in Msgs :
        (msgs[m].made /\ GetTopicSubscribers(topicSubscribers, msgs[m].Topic) = {})
            => timer[m].st = "none"

\* C27: no handler is called for a message whose TTL is shorter than its delay
\* (its delivery timer fires after it has expired).
C27_NoDeliveryAfterExpiry ==
    \A m \in Msgs :
        (msgs[m].made /\ msgs[m].Delay > msgs[m].TTL)
            => \A s \in Subs : handler[m][s] = "none"

\* ----------------------------------------------------------- SpecHandler
\* Two non-delayed messages with the default TTL through a started broker that
\* keeps running, on the topic s1 subscribes to; the handler returns nil,
\* returns an error or panics. Under the scheduler's fairness.

HandlerOutcomes == {"nil", "error", "panic"}

\* The state of a processMessage goroutine whose handler has finished.
HandlerDone(outcome) ==
    CASE outcome = "nil" -> "returned"
      [] outcome = "error" -> "logged"
      [] outcome = "panic" -> "recovered"

\* A processMessage without the deferred recover: the handler's panic ends the
\* process, and with it every worker.
HandlerReturnUncaught(m, s, outcome) ==
    /\ handler[m][s] = "invoked"
    /\ handler' = [handler EXCEPT ![m][s] = HandlerDone(outcome)]
    /\ worker' = IF outcome = "panic"
                 THEN [w \in DOMAIN worker |-> [NewWorker EXCEPT !.pc = "exited"]]
                 ELSE worker
    /\ UNCHANGED <<topicSubscribers, subscriberTopics, rcall, config, running,
                    ctxDone, chClosed, pendingMessages, messages,
                    deliveryTimers, subscribers, subscriptions, msgs, timer,
                    callback, cleaner, monitor, starter, stopper, publisher,
                    canceller, now, expiredDrop>>

\* processMessage: the handler returns nil, returns an error (logged) or panics
\* (recovered by the deferred function and logged); the goroutine ends.
HandlerReturn(m, s, outcome) ==
    /\ handler[m][s] = "invoked"
    /\ handler' = [handler EXCEPT ![m][s] = HandlerDone(outcome)]
    /\ worker' = worker
    /\ UNCHANGED <<topicSubscribers, subscriberTopics, rcall, config, running,
                    ctxDone, chClosed, pendingMessages, messages,
                    deliveryTimers, subscribers, subscriptions, msgs, timer,
                    callback, cleaner, monitor, starter, stopper, publisher,
                    canceller, now, expiredDrop>>

InitHandler ==
    /\ OneSubscription
    /\ StartedBroker(SmallConfig, {}, {1, 2}, {})

ReturnRun == \E m \in Msgs, s \in Subs, outcome \in HandlerOutcomes : HandlerReturn(m, s, outcome)

NextHandler ==
    \/ \E p \in DOMAIN publisher : PubCall(p, "t1", 0, 0)
    \/ PublishRun
    \/ \E w \in DOMAIN worker : WorkerRecv(w)
    \/ DispatchRun
    \/ HandlerRun
    \/ ReturnRun
    \/ Tick

FairnessHandler ==
    /\ WF_vars(PublishRun)
    /\ WF_vars(\E w \in DOMAIN worker : WorkerRecv(w))
    /\ WF_vars(DispatchRun)
    /\ WF_vars(HandlerRun)
    /\ WF_vars(ReturnRun)

SpecHandler == InitHandler /\ [][NextHandler]_vars /\ FairnessHandler

\* The handler of s has been invoked for message m.
Invoked(m, s) == handler[m][s] \in {"invoked", "returned", "logged", "recovered"}

\* C21: the step in which a handler returns an error or panics changes nothing
\* but its own task; no Publish call fails and no worker exits; and every
\* message published on the topic, before or after, is still delivered to the
\* subscriber.
C21_HandlerFailureContained ==
    /\ [][\A m \in Msgs, s \in Subs :
            (handler[m][s] = "invoked" /\ handler'[m][s] \in {"logged", "recovered"})
            => /\ \A n \in Msgs, r \in Subs :
                    (n # m \/ r # s) => handler'[n][r] = handler[n][r]
               /\ UNCHANGED <<regVars, lifeVars, callVars, subscribers, subscriptions,
                              pendingMessages, messages, deliveryTimers, msgs, timer,
                              worker, callback, cleaner, monitor>>]_vars
    /\ [](/\ \A p \in DOMAIN publisher : publisher[p].res \in {"none", "ok"}
          /\ \A w \in DOMAIN worker : worker[w].pc # "exited")
    /\ \A m \in {1, 2} : PublishedOn(m, "t1") ~> Invoked(m, "s1")

\* The handler panicked on the first message and has been invoked for the
\* second, constructed later.
C21_Witness ==
    /\ handler[1]["s1"] = "recovered"
    /\ Invoked(2, "s1")
    /\ msgs[2].made
    /\ msgs[2].CreatedAt > msgs[1].CreatedAt

\* --------------------------------------------------------------- SpecSub
\* MessageBroker.Subscribe(subscriberID, topicMap), sequential calls, over
\* strings: the ids and topics are character sequences, a topic map is its set
\* of keys, and a map is ranged over in any order. One step per registry call
\* and one per iteration of Subscriber.Subscribe.

MaxSubCalls == 2
SubIds == {<<"a">>, <<"p">>, <<"a", "a">>}
SubRegistered == {<<"a">>, <<"p">>}
SubTopics == {<<"a">>, <<"p", "2", "p", "/", "a">>, <<"p", "2", "p", "/", "p">>}
SubIdle == [pc |-> "idle", id |-> <<>>, topicMap |-> {}, todo |-> {}, res |-> "none", n |-> 0]

\* Subscribe: b.subscribers.Get; an unregistered id is an error, and with an
\* empty map nothing is added and Subscriber.Subscribe returns nil at once.
BSubscribeGet(id, topicMap) ==
    /\ rcall.pc \in {"idle", "done"}
    /\ rcall.n < MaxSubCalls
    /\ LET call == [SubIdle EXCEPT !.id = id, !.topicMap = topicMap, !.n = rcall.n + 1]
       IN rcall' = IF id \notin subscribers
                   THEN [call EXCEPT !.pc = "done", !.res = "not found"]
                   ELSE IF topicMap = {} THEN [call EXCEPT !.pc = "done", !.res = "nil"]
                   ELSE [call EXCEPT !.pc = "add", !.todo = topicMap]
    /\ UNCHANGED <<topicSubscribers, subscriberTopics, config, running, ctxDone,
                    chClosed, pendingMessages, messages, deliveryTimers,
                    subscribers, subscriptions, msgs, timer, worker, callback,
                    handler, cleaner, monitor, starter, stopper, publisher,
                    canceller, now, expiredDrop>>

\* Subscribe: one iteration of the loop over topicMap, AddSubscription.
BSubscribeAdd(t) ==
    /\ rcall.pc = "add"
    /\ t \in rcall.todo
    /\ LET reg == AddSubscriptionOp(Registry(topicSubscribers, subscriberTopics), rcall.id, t)
       IN /\ topicSubscribers' = reg.ts
          /\ subscriberTopics' = reg.st
    /\ rcall' = IF rcall.todo = {t}
                THEN [rcall EXCEPT !.pc = "table", !.todo = rcall.topicMap]
                ELSE [rcall EXCEPT !.todo = @ \ {t}]
    /\ UNCHANGED <<config, running, ctxDone, chClosed, pendingMessages, messages,
                    deliveryTimers, subscribers, subscriptions, msgs, timer,
                    worker, callback, handler, cleaner, monitor, starter,
                    stopper, publisher, canceller, now, expiredDrop>>

\* Subscriber.Subscribe: one iteration of its loop over topicMap; the first
\* topic that fails TopicValidate ends the call with the error, a valid topic is
\* entered in the handler table.
BSubscribeTable(t) ==
    /\ rcall.pc = "table"
    /\ t \in rcall.todo
    /\ LET err == TopicValidate(rcall.id, t)
       IN IF err # "nil"
          THEN /\ rcall' = [rcall EXCEPT !.pc = "done", !.res = err]
               /\ subscriptions' = subscriptions
          ELSE /\ subscriptions' = [subscriptions EXCEPT ![rcall.id] = @ \cup {t}]
               /\ rcall' = IF rcall.todo = {t}
                           THEN [rcall EXCEPT !.pc = "done", !.res = "nil", !.todo = {}]
                           ELSE [rcall EXCEPT !.todo = @ \ {t}]
    /\ UNCHANGED <<topicSubscribers, subscriberTopics, config, running, ctxDone,
                    chClosed, pendingMessages, messages, deliveryTimers,
                    subscribers, msgs, timer, worker, callback, handler,
                    cleaner, monitor, starter, stopper, publisher, canceller,
                    now, expiredDrop>>

InitSub ==
    /\ RegistryInit
    /\ BrokerInit(SmallConfig, {}, {}, {}, {})
    /\ subscribers = SubRegistered
    /\ subscriptions = [id \in SubIds |-> {}]
    /\ rcall = SubIdle

NextSub ==
    \/ \E id \in SubIds, topicMap \in SUBSET SubTopics : BSubscribeGet(id, topicMap)
    \/ \E t \in SubTopics : BSubscribeAdd(t)
    \/ \E t \in SubTopics : BSubscribeTable(t)

SpecSub == InitSub /\ [][NextSub]_vars

\* C24: when a broker Subscribe call has returned, with nil or with a
\* validation error, the registry holds a pair (id, t) only if subscriber id has
\* a handler entry for t; a call rejected for an invalid topic leaves no
\* registry entry for that topic.
C24_RegistryAgreesWithTable ==
    rcall.pc = "done" =>
        \A id \in SubIds, t \in SubTopics :
            id \in GetTopicSubscribers(topicSubscribers, t) => t \in subscriptions[id]

\* -------------------------------------------------------------- SpecRace
\* UnregisterSubscriber and Subscribe calls for the registered subscriber s1 in
\* any interleaving, one step per SafeMap critical section and one for the walk
\* RemoveSubscriber makes of the inner map outside the lock. Every caller makes
\* one call; a Subscribe names one topic.

RaceCallers == {"a1", "a2", "a3"}
RaceIdle == [pc |-> "idle", op |-> "", s |-> "", t |-> "", todo |-> {}, dirty |-> FALSE,
             res |-> "none"]

\* The UnregisterSubscriber calls about to walk subscriber s's inner map see it
\* written by caller c.
RaceMarkDirty(calls, c, s) ==
    [q \in DOMAIN calls |->
        IF q # c /\ calls[q].pc = "unregWalk" /\ calls[q].s = s
        THEN [calls[q] EXCEPT !.dirty = TRUE] ELSE calls[q]]

\* Subscribe: b.subscribers.Get; an unregistered id is an error.
RaceSubGet(c, s, t) ==
    /\ rcall[c].pc = "idle"
    /\ LET call == [RaceIdle EXCEPT !.op = "subscribe", !.s = s, !.t = t]
       IN rcall' = [rcall EXCEPT ![c] =
            IF s \notin subscribers THEN ApiReturn(call, "not found")
            ELSE [call EXCEPT !.pc = "subAdd1"]]
    /\ UNCHANGED <<topicSubscribers, subscriberTopics, config, running, ctxDone,
                    chClosed, pendingMessages, messages, deliveryTimers,
                    subscribers, subscriptions, msgs, timer, worker, callback,
                    handler, cleaner, monitor, starter, stopper, publisher,
                    canceller, now, expiredDrop>>

\* Subscribe: AddSubscription, first Update (topicSubscribers).
RaceSubAdd1(c) ==
    /\ rcall[c].pc = "subAdd1"
    /\ topicSubscribers' = AddTopicSide(topicSubscribers, rcall[c].s, rcall[c].t)
    /\ rcall' = [rcall EXCEPT ![c].pc = "subAdd2"]
    /\ UNCHANGED <<subscriberTopics, config, running, ctxDone, chClosed,
                    pendingMessages, messages, deliveryTimers, subscribers,
                    subscriptions, msgs, timer, worker, callback, handler,
                    cleaner, monitor, starter, stopper, publisher, canceller,
                    now, expiredDrop>>

\* Subscribe: AddSubscription, second Update (subscriberTopics), which writes
\* the subscriber's inner map in place when the subscriber has one.
RaceSubAdd2(c) ==
    /\ rcall[c].pc = "subAdd2"
    /\ subscriberTopics' = AddSubscriberSide(subscriberTopics, rcall[c].s, rcall[c].t)
    /\ rcall' = [(IF SafeMapGet(subscriberTopics, rcall[c].s).ok
                  THEN RaceMarkDirty(rcall, c, rcall[c].s) ELSE rcall)
                 EXCEPT ![c] = [rcall[c] EXCEPT !.pc = "subTable"]]
    /\ UNCHANGED <<topicSubscribers, config, running, ctxDone, chClosed,
                    pendingMessages, messages, deliveryTimers, subscribers,
                    subscriptions, msgs, timer, worker, callback, handler,
                    cleaner, monitor, starter, stopper, publisher, canceller,
                    now, expiredDrop>>

\* Subscribe: subscriber.Subscribe(topicMap), on the Subscriber the Get
\* returned, enters the topic in its handler table; the call returns nil.
RaceSubTable(c) ==
    /\ rcall[c].pc = "subTable"
    /\ subscriptions' = [subscriptions EXCEPT ![rcall[c].s] = @ \cup {rcall[c].t}]
    /\ rcall' = [rcall EXCEPT ![c] = ApiReturn(@, "ok")]
    /\ UNCHANGED <<topicSubscribers, subscriberTopics, config, running, ctxDone,
                    chClosed, pendingMessages, messages, deliveryTimers,
                    subscribers, msgs, timer, worker, callback, handler,
                    cleaner, monitor, starter, stopper, publisher, canceller,
                    now, expiredDrop>>

\* UnregisterSubscriber: b.subscribers.Get; an unregistered id returns.
RaceUnregGet(c, s) ==
    /\ rcall[c].pc = "idle"
    /\ LET call == [RaceIdle EXCEPT !.op = "unregister", !.s = s]
       IN rcall' = [rcall EXCEPT ![c] =
            IF s \notin subscribers THEN ApiReturn(call, "not found")
            ELSE [call EXCEPT !.pc = "unregInner"]]
    /\ UNCHANGED <<topicSubscribers, subscriberTopics, config, running, ctxDone,
                    chClosed, pendingMessages, messages, deliveryTimers,
                    subscribers, subscriptions, msgs, timer, worker, callback,
                    handler, cleaner, monitor, starter, stopper, publisher,
                    canceller, now, expiredDrop>>

\* UnregisterSubscriber: RemoveSubscriber, the Get of GetSubscriberTopics; with
\* no inner map there is nothing to remove.
RaceUnregInner(c) ==
    /\ rcall[c].pc = "unregInner"
    /\ LET got == SafeMapGet(subscriberTopics, rcall[c].s)
       IN rcall' = [rcall EXCEPT ![c] =
            IF got.ok THEN [@ EXCEPT !.pc = "unregWalk", !.todo = got.value]
            ELSE [@ EXCEPT !.pc = "unregDelete"]]
    /\ UNCHANGED <<topicSubscribers, subscriberTopics, config, running, ctxDone,
                    chClosed, pendingMessages, messages, deliveryTimers,
                    subscribers, subscriptions, msgs, timer, worker, callback,
                    handler, cleaner, monitor, starter, stopper, publisher,
                    canceller, now, expiredDrop>>

\* UnregisterSubscriber: the walk of the inner map, outside the lock. Unwritten
\* since the Get, it yields the map's elements; written meanwhile (a data race
\* on a Go map), any of the elements the map held at the Get or holds now.
RaceUnregWalk(c) ==
    /\ rcall[c].pc = "unregWalk"
    /\ \E topics \in SUBSET (rcall[c].todo
                              \cup GetSubscriberTopics(subscriberTopics, rcall[c].s)) :
          /\ ~rcall[c].dirty => topics = rcall[c].todo
          /\ rcall' = [rcall EXCEPT ![c] =
                [@ EXCEPT !.pc = IF topics = {} THEN "unregDelete" ELSE "unregLoop",
                          !.todo = topics, !.dirty = FALSE]]
    /\ UNCHANGED <<topicSubscribers, subscriberTopics, config, running, ctxDone,
                    chClosed, pendingMessages, messages, deliveryTimers,
                    subscribers, subscriptions, msgs, timer, worker, callback,
                    handler, cleaner, monitor, starter, stopper, publisher,
                    canceller, now, expiredDrop>>

\* UnregisterSubscriber: the walk raced by a write, detected by the runtime
\* ("fatal error: concurrent map iteration and map write"); no call returns.
RaceUnregFatal(c) ==
    /\ rcall[c].pc = "unregWalk"
    /\ rcall[c].dirty
    /\ rcall' = [q \in RaceCallers |->
                    IF rcall[q].pc \in {"idle", "done"} /\ q # c THEN rcall[q]
                    ELSE [rcall[q] EXCEPT !.pc = "fatal"]]
    /\ UNCHANGED <<topicSubscribers, subscriberTopics, config, running, ctxDone,
                    chClosed, pendingMessages, messages, deliveryTimers,
                    subscribers, subscriptions, msgs, timer, worker, callback,
                    handler, cleaner, monitor, starter, stopper, publisher,
                    canceller, now, expiredDrop>>

\* UnregisterSubscriber: RemoveSubscription of the next topic, first Update.
RaceUnregRemove1(c) ==
    /\ rcall[c].pc = "unregLoop"
    /\ \E t \in rcall[c].todo :
          /\ topicSubscribers' = RemoveTopicSide(topicSubscribers, rcall[c].s, t)
          /\ rcall' = [rcall EXCEPT ![c] = [@ EXCEPT !.pc = "unregRem2", !.t = t]]
    /\ UNCHANGED <<subscriberTopics, config, running, ctxDone, chClosed,
                    pendingMessages, messages, deliveryTimers, subscribers,
                    subscriptions, msgs, timer, worker, callback, handler,
                    cleaner, monitor, starter, stopper, publisher, canceller,
                    now, expiredDrop>>

\* UnregisterSubscriber: RemoveSubscription of that topic, second Update, which
\* writes the inner map in place.
RaceUnregRemove2(c) ==
    /\ rcall[c].pc = "unregRem2"
    /\ subscriberTopics' = RemoveSubscriberSide(subscriberTopics, rcall[c].s, rcall[c].t)
    /\ LET left == rcall[c].todo \ {rcall[c].t}
       IN rcall' = [(IF SafeMapGet(subscriberTopics, rcall[c].s).ok
                     THEN RaceMarkDirty(rcall, c, rcall[c].s) ELSE rcall)
                    EXCEPT ![c] =
                        [rcall[c] EXCEPT !.pc = IF left = {} THEN "unregDelete" ELSE "unregLoop",
                                         !.t = "", !.todo = left]]
    /\ UNCHANGED <<topicSubscribers, config, running, ctxDone, chClosed,
                    pendingMessages, messages, deliveryTimers, subscribers,
                    subscriptions, msgs, timer, worker, callback, handler,
                    cleaner, monitor, starter, stopper, publisher, canceller,
                    now, expiredDrop>>

\* UnregisterSubscriber: b.subscribers.Delete, and return.
RaceUnregDelete(c) ==
    /\ rcall[c].pc = "unregDelete"
    /\ subscribers' = subscribers \ {rcall[c].s}
    /\ rcall' = [rcall EXCEPT ![c] = ApiReturn(@, "ok")]
    /\ UNCHANGED <<topicSubscribers, subscriberTopics, config, running, ctxDone,
                    chClosed, pendingMessages, messages, deliveryTimers,
                    subscriptions, msgs, timer, worker, callback, handler,
                    cleaner, monitor, starter, stopper, publisher, canceller,
                    now, expiredDrop>>

\* NewMessageBroker and RegisterSubscriber(s1): s1 registered, nothing subscribed.
InitRace ==
    /\ RegistryInit
    /\ rcall = [c \in RaceCallers |-> RaceIdle]
    /\ BrokerInit(SmallConfig, {}, {}, {}, {})
    /\ subscribers = {"s1"}
    /\ subscriptions = [s \in Subs |-> {}]

NextRace ==
    \E c \in RaceCallers :
        \/ \E t \in ApiTopics : RaceSubGet(c, "s1", t)
        \/ RaceSubAdd1(c)
        \/ RaceSubAdd2(c)
        \/ RaceSubTable(c)
        \/ RaceUnregGet(c, "s1")
        \/ RaceUnregInner(c)
        \/ RaceUnregWalk(c)
        \/ RaceUnregFatal(c)
        \/ RaceUnregRemove1(c)
        \/ RaceUnregRemove2(c)
        \/ RaceUnregDelete(c)

SpecRace == InitRace /\ [][NextRace]_vars

\* C29: in every quiescent state (every call made has returned) reached under
\* any interleaving of the subscriber calls, every subscriber id that appears in
\* the registry is registered in the broker's subscriber map.
C29_NoDanglingRegistryEntry ==
    (\A c \in RaceCallers : rcall[c].pc \in {"idle", "done"})
        => \A s \in Subs :
              HasPair(topicSubscribers, subscriberTopics, s) => s \in subscribers

\* further claims, SpecPub

\* C31: whenever Publish returns an error ("not running" or "shutting down"),
\* the message it was given is not in the message store when it returns.
C31_ErrorMeansNotStored ==
    [][\A p \in DOMAIN publisher :
          (/\ publisher[p].pc # "done"
           /\ publisher'[p].pc = "done"
           /\ publisher'[p].res \in {"not running", "shutting down"})
          => ~(/\ SafeMapGet(messages', msgs'[p].ID).ok
               /\ SafeMapGet(messages', msgs'[p].ID).value = p)]_vars

\* C32: a published message whose topic has at least one subscriber is in the
\* store (GetMessage with its id returns a copy of it) from the moment Publish
\* stores it until it expires; fan-out, a timer firing and CancelDelayedMessage
\* do not remove it.
C32_StoredUntilExpiry ==
    \A p \in DOMAIN publisher :
        (/\ publisher[p].pc \in {"select", "parked", "done", "panic"}
         /\ publisher[p].res # "not running"
         /\ GetTopicSubscribers(topicSubscribers, msgs[p].Topic) # {}
         /\ ~IsExpired(msgs[p], now))
        => /\ SafeMapGet(messages, msgs[p].ID).ok
           /\ SafeMapGet(messages, msgs[p].ID).value = p

\* -------------------------------------------------------------- SpecPass
\* Two non-delayed messages on the subscribed topic, with the default TTL or a
\* TTL of 1, against the cleaner's passes, one step per SafeMap critical
\* section: a pass collects the ids of the expired messages under the store's
\* read lock and deletes them one Delete at a time. rcall[g] holds cleaner g's
\* msgIdListToDelete.

\* cleanupExpiredMessages: b.messages.ForEach collects the ids of the messages
\* that are expired; with none the pass is over.
PassCollect(g) ==
    /\ cleaner[g] = "due"
    /\ LET ids == {id \in SafeMapKeys(messages) : IsExpired(msgs[messages[id]], now)}
       IN /\ rcall' = [rcall EXCEPT ![g] = ids]
          /\ cleaner' = [cleaner EXCEPT ![g] = IF ids = {} THEN "run" ELSE "sweep"]
    /\ UNCHANGED <<topicSubscribers, subscriberTopics, config, running, ctxDone,
                    chClosed, pendingMessages, messages, deliveryTimers,
                    subscribers, subscriptions, msgs, timer, worker, callback,
                    handler, monitor, starter, stopper, publisher, canceller,
                    now, expiredDrop>>

\* cleanupExpiredMessages: b.messages.Delete(id) of the next collected id; the
\* pass is over after the last.
PassDelete(g) ==
    /\ cleaner[g] = "sweep"
    /\ \E id \in rcall[g] :
          /\ messages' = SafeMapDelete(messages, id)
          /\ rcall' = [rcall EXCEPT ![g] = @ \ {id}]
          /\ cleaner' = [cleaner EXCEPT ![g] = IF rcall[g] = {id} THEN "run" ELSE "sweep"]
    /\ UNCHANGED <<topicSubscribers, subscriberTopics, config, running, ctxDone,
                    chClosed, pendingMessages, deliveryTimers, subscribers,
                    subscriptions, msgs, timer, worker, callback, handler,
                    monitor, starter, stopper, publisher, canceller, now,
                    expiredDrop>>

InitPass ==
    /\ topicSubscribers = AddTopicSide(EmptyMap, "s1", "t1")
    /\ subscriberTopics = AddSubscriberSide(EmptyMap, "s1", "t1")
    /\ rcall = [g \in {1} |-> {}]
    /\ subscribers = {"s1"}
    /\ subscriptions = [s \in Subs |-> IF s = "s1" THEN {"t1"} ELSE {}]
    /\ StartedBroker(SweepConfig, {}, {1, 2}, {})

NextPass ==
    \/ \E p \in DOMAIN publisher, l \in {0, 1} : Construct(p, "t1", 0, l)
    \/ \E p \in DOMAIN publisher : PubMade(p)
    \/ PublishRun
    \/ \E w \in DOMAIN worker : WorkerRecv(w)
    \/ \E w \in DOMAIN worker : WorkerExpired(w)
    \/ DispatchRun
    \/ HandlerRun
    \/ \E g \in DOMAIN cleaner : PassCollect(g)
    \/ \E g \in DOMAIN cleaner : PassDelete(g)
    \/ TimedTick

SpecPass == InitPass /\ [][NextPass]_vars

\* C33: a sweeper pass removes from the store exactly the messages that are
\* expired at the time of the pass: every message a pass removes is expired,
\* a pass that has ended has left no message that was expired when it
\* collected, and its steps leave the timer map and the timers, the backlog,
\* the registry and the subscriber map unchanged.
C33_SweepRemovesExpiredOnly ==
    [][\A g \in DOMAIN cleaner :
          (/\ cleaner[g] \in {"due", "sweep"}
           /\ (cleaner'[g] # cleaner[g] \/ rcall'[g] # rcall[g]))
          => /\ \A id \in SafeMapKeys(messages) \ SafeMapKeys(messages') :
                    IsExpired(msgs[messages[id]], now)
             /\ \A id \in SafeMapKeys(messages') : messages'[id] = messages[id]
             /\ cleaner[g] = "due"
                    => \A id \in SafeMapKeys(messages) :
                          IsExpired(msgs[messages[id]], now) => id \in rcall'[g]
             /\ UNCHANGED <<deliveryTimers, timer, pendingMessages, regVars,
                            subscribers, subscriptions>>]_vars

\* -------------------------------------------------------------- SpecFifo
\* One producer publishes two non-delayed messages on the subscribed topic, one
\* call after the other, to a broker with a single dispatcher worker.

\* The producer's Publish call p: it begins when the call before it has returned.
SerialPubCall(p) ==
    /\ \A q \in DOMAIN publisher : q < p => publisher[q].pc = "done"
    /\ PubCall(p, "t1", 0, 0)

NextFifo ==
    \/ \E p \in DOMAIN publisher : SerialPubCall(p)
    \/ PublishRun
    \/ \E w \in DOMAIN worker : WorkerRecv(w)
    \/ DispatchRun
    \/ HandlerRun
    \/ ReturnRun
    \/ Tick

SpecFifo == InitHandler /\ [][NextFifo]_vars

\* C34: with serialized publishes from one producer and a single dispatcher
\* worker, the non-delayed messages of one topic reach the subscriber's handler
\* in publish order: the handler invocation for the earlier message begins
\* before the invocation for the later one.
C34_HandlerInPublishOrder ==
    [][(~Invoked(2, "s1") /\ Invoked(2, "s1")') => Invoked(1, "s1")]_vars

\* further claims, Spec

\* C35: CancelDelayedMessage for an id that has no entry in the timer map (the
\* id of a message not published or not yet dispatched, of a non-delayed
\* message, or of a delayed message whose timer has fired) returns false and
\* changes no broker state: store, timer map and timers, backlog, registry and
\* subscribers are unchanged.
C35_CancelWithoutEntryNoEffect ==
    [][\A c \in DOMAIN canceller :
          (/\ canceller[c].pc = "idle"
           /\ canceller'[c].pc # "idle"
           /\ ~SafeMapGet(deliveryTimers, canceller'[c].id).ok)
          => /\ canceller'[c].pc = "done"
             /\ canceller'[c].res = "false"
             /\ UNCHANGED <<messages, deliveryTimers, timer, pendingMessages,
                            regVars, subscribers, subscriptions, msgs, handler,
                            callback, worker, lifeVars>>]_vars

\* A cancel has returned false without finding an entry for the id of a
\* delayed message; the timer has fired and the message is still in the store.
C35_Witness ==
    \E c \in CancelReturned("false") :
        /\ canceller[c].m = 0
        /\ \E m \in WithID(canceller[c].id) :
              /\ msgs[m].Delay > 0
              /\ timer[m].st = "fired"
              /\ SafeMapGet(messages, msgs[m].ID).ok
\* further claims, SpecTopic

\* Topic.Validate: the error for the empty topic, or "nil".
Validate(topic) == IF topic = <<>> THEN "topic can not be empty" ELSE "nil"

\* C36: subscribing to the empty topic is rejected: a Subscribe of a topic that
\* Topic.Validate refuses returns the topic-validity error and creates no
\* subscription for it.
C36_EmptyTopicRejected ==
    (rcall.pc = "done" /\ Validate(rcall.topic) # "nil")
        => /\ rcall.res # "nil"
           /\ rcall.topic \notin subscriptions[rcall.id]

\* ------------------------------------------------------------- SpecUnsub
\* Broker Unsubscribe("s1", ["t1"]) calls against two messages on t1, to which
\* s1 and s2 are subscribed: message 1 is published at any moment, message 2
\* (with or without a delay) by a Publish call that begins after an Unsubscribe
\* has returned. No Subscribe call is made.

\* Unsubscribe(s, [t]) has returned.
Unsubscribed(s, t) ==
    \E c \in DOMAIN rcall :
        /\ rcall[c].op = "unsubscribe" /\ rcall[c].s = s /\ rcall[c].t = t
        /\ rcall[c].pc = "done"

\* A Publish call on topic t1 that begins after Unsubscribe("s1", ["t1"]) returned.
LatePubCall(p, delay) ==
    /\ Unsubscribed("s1", "t1")
    /\ PubCall(p, "t1", delay, 0)

InitUnsub ==
    /\ topicSubscribers = AddTopicSide(AddTopicSide(EmptyMap, "s1", "t1"), "s2", "t1")
    /\ subscriberTopics = AddSubscriberSide(AddSubscriberSide(EmptyMap, "s1", "t1"), "s2", "t1")
    /\ rcall = [c \in ApiCallers |-> ApiIdle]
    /\ subscribers = {"s1", "s2"}
    /\ subscriptions = [s \in Subs |-> IF s \in {"s1", "s2"} THEN {"t1"} ELSE {}]
    /\ StartedBroker(SmallConfig, {}, {1, 2}, {})

NextUnsub ==
    \/ PubCall(1, "t1", 0, 0)
    \/ \E d \in {0, 2} : LatePubCall(2, d)
    \/ PublishRun
    \/ \E w \in DOMAIN worker : WorkerRecv(w)
    \/ \E w \in DOMAIN worker : WorkerArm(w)
    \/ \E w \in DOMAIN worker : WorkerSet(w)
    \/ DispatchRun
    \/ CallbackRun
    \/ HandlerRun
    \/ \E c \in {"a1", "a2"} : UnsubGet(c, "s1", "t1")
    \/ \E c \in ApiCallers : UnsubRem1(c)
    \/ \E c \in ApiCallers : UnsubRem2(c)
    \/ \E c \in ApiCallers : UnsubTable(c)
    \/ Tick

SpecUnsub == InitUnsub /\ [][NextUnsub]_vars

\* C37: a message whose Publish call begins after broker Unsubscribe(s, [t]) has
\* returned, with no Subscribe of s to t since, is never delivered to
\* subscriber s's handler for t: no handler goroutine of s1 is spawned for
\* message 2.
C37_NoDeliveryAfterUnsubscribe == handler[2]["s1"] = "none"

\* Message 1, published before the Unsubscribe, reached s1's handler; message
\* 2, published with a delay after it returned, reached s2's handler only.
C37_Witness ==
    /\ Unsubscribed("s1", "t1")
    /\ handler[1]["s1"] = "invoked"
    /\ msgs[2].made /\ msgs[2].Delay > 0
    /\ handler[2]["s2"] = "invoked"
    /\ handler[2]["s1"] = "none"

\* further claims, SpecRegLog

\* C38: registry updates are idempotent: an AddSubscription(s, t) on a registry
\* that holds (s, t) and a RemoveSubscription(s, t) on one that does not leave
\* both mappings unchanged, and AddSubscription followed by RemoveSubscription
\* of one new pair restores the registry.
C38_RegistryIdempotent ==
    /\ [][(\/ rcall'.last.op = "add" /\ rcall'.last.had
           \/ rcall'.last.op = "remove" /\ ~rcall'.last.had)
          => UNCHANGED regVars]_vars
    /\ [](LET reg == Registry(topicSubscribers, subscriberTopics)
          IN \A s \in Subs, t \in Topics :
                s \notin GetTopicSubscribers(topicSubscribers, t)
                    => RemoveSubscriptionOp(AddSubscriptionOp(reg, s, t), s, t) = reg)

\* The last call added again a pair the registry held, on a topic that has
\* another subscriber too.
C38_Witness ==
    /\ rcall.last.op = "add"
    /\ rcall.last.had
    /\ Cardinality(GetTopicSubscribers(topicSubscribers, rcall.last.t)) = 2
    /\ Cardinality(GetSubscriberTopics(subscriberTopics, rcall.last.s)) = 2
\* further claims, SpecLife

\* C39: the backlog never holds more than queue_size messages; a Publish that
\* finds the backlog full does not return until a dispatcher worker has made
\* room or the shutdown is observed; and the broker runs at most
\* max_concurrency dispatcher workers at any time.
C39_BoundedBacklogAndWorkers ==
    /\ [](Len(pendingMessages) <= config.QueueSize)
    /\ [][\A p \in DOMAIN publisher :
             (/\ publisher[p].pc \in {"select", "parked"}
              /\ publisher'[p].pc = "done"
              /\ Len(pendingMessages) >= config.QueueSize)
             => ctxDone /\ publisher'[p].res = "shutting down"]_vars
    /\ [](Cardinality({w \in DOMAIN worker : worker[w].pc # "exited"})
              <= config.MaxConcurrency)

====
